---- MODULE Spec2Model ----
(***************************************************************************)
(* Playback pipeline of the Tanmatsu video player (src/main/main.c):       *)
(* the pipeline driver (start_playback, prebuffer_chunks,                  *)
(* buffer_one_chunk, process_video_frame, stop_playback), the video frame  *)
(* ring buffer, the pending audio stash, the audio chunk queue with its    *)
(* consumer task, and the wall clock read by the pacer.                    *)
(*                                                                         *)
(* The model follows one playback session, from the menu to the return to  *)
(* the menu.  The driver is one sequential process; `pc` is its position.  *)
(* A call of buffer_one_chunk is two steps, because the audio task runs on *)
(* the other core and may take chunks from the queue between the retry of  *)
(* the stashed chunk (main.c:244-249) and the delivery of the chunk read   *)
(* next (main.c:251-298).                                                  *)
(***************************************************************************)
EXTENDS Integers, Sequences, FiniteSets, TLC

----------------------------------------------------------------------------
(* Program constants *)

VIDEO_BUFFER_FRAMES == 16
VIDEO_FRAME_MAX_SIZE == 64 * 1024
PRE_BUFFER_TIME_MS == 300
MAX_FRAME_SIZE == 100 * 1024
PENDING_AUDIO_CAPACITY == 4096
max_chunks == 8
AUDIO_QUEUE_LENGTH == 2

----------------------------------------------------------------------------
(* Bounds of the model *)

\* chunks the long, video-only container of the playlist holds at most
LongFileChunks == 18
\* chunks the short, interleaved container of the playlist holds at most
ShortFileChunks == 6
\* audio chunks the short container holds at most
MaxAudioChunks == 4
\* video chunks larger than a ring slot the short container holds at most
MaxOversizedVideo == 1
\* the wall clock advances in jumps of this many milliseconds
ClockStepMs == 170
\* chunks the sparse container of the playlist holds at most: enough for a
\* pre-buffer and two top-ups
SparseFileChunks == 19
\* video chunks that fit a ring slot the sparse container holds at most, all
\* of them before its first oversized chunk
SparseRegularVideo == 3
\* video chunks larger than a ring slot the sparse container holds at most
SparseOversizedVideo == 16

\* chunk headers the short container holds at most that declare a size above
\* the parser's frame buffer
MaxHugeHeaders == 1

\* chunks the movi list of a container on the card holds at most
MaxChunks == 3
\* calls of avi_parser_rewind a run of the parser makes at most
MaxRewinds == 1
\* playback sessions started from the menu at most
MaxSessions == 2

\* audio tasks created, and sink writes of all of them, in one behaviour
MaxAudioTasks == 2
MaxAudioWrites == 1

\* units a preloaded audio stream is made of
MaxUnits == 3

\* videos of the playlists
MaxVideos == 6

\* ui_menu.c:19
MAX_VISIBLE_ITEMS == 4

\* the containers of the playlist: the frame rate of the header, and how
\* many chunks, audio chunks, video chunks that fit a ring slot and oversized
\* video chunks the movi list may hold, and how many fitting video chunks
\* lead before the first oversized one, and how many headers declare more
\* than the parser's frame buffer holds; what the chunks are is decided when
\* they are read
Files ==
    {[fps |-> 60, chunks |-> LongFileChunks, audio |-> 0,
      regular |-> LongFileChunks, oversized |-> 0, lead |-> 0, huge |-> 0],
     [fps |-> 10, chunks |-> ShortFileChunks, audio |-> MaxAudioChunks,
      regular |-> ShortFileChunks, oversized |-> MaxOversizedVideo,
      lead |-> 0, huge |-> MaxHugeHeaders],
     [fps |-> 5, chunks |-> SparseFileChunks, audio |-> 0,
      regular |-> SparseRegularVideo, oversized |-> SparseOversizedVideo,
      lead |-> SparseRegularVideo, huge |-> 0]}

Slots == 0 .. (VIDEO_BUFFER_FRAMES - 1)

\* sizes of the chunks the demuxer returns: at and just above each capacity
VideoSizes == {VIDEO_FRAME_MAX_SIZE, VIDEO_FRAME_MAX_SIZE + 1}
AudioSizes == {PENDING_AUDIO_CAPACITY, PENDING_AUDIO_CAPACITY + 1}

EndChunk == [type |-> "AVI_CHUNK_END", size |-> 0, id |-> 0]
NoPace == [called |-> FALSE, expected |-> 0, current_before |-> 0,
           buffered_before |-> <<>>, dropped |-> <<>>, left |-> 0,
           decoded |-> <<>>, decode_ok |-> FALSE]

VARIABLES
    pc,                 \* position of the pipeline driver
    file,               \* the container that is open
    started,            \* a playback session was started
    sessions,           \* calls of start_playback that started a session
    video_buffer_memory, \* the memory of the ring is allocated
    video_fps, frame_duration_ms,
    video_frames,       \* slot -> [size, frame_index]
    video_write_idx, video_read_idx, video_buffered,
    next_frame_index, end_of_file, current_frame, video_ended,
    pending_audio_data, \* the chunk copied into the stash (its identity)
    pending_audio_size, \* 0 = no pending chunk
    chunks_read,        \* local of process_video_frame
    elapsed_ms,         \* wall clock since playback_start_time_us, in ms
    start_time_captured, \* playback_start_time_us was taken in this session
    parser_pos,         \* chunks of the movi list the parser has passed
    oversized,          \* oversized video chunks returned so far
    audio_queue,        \* the audio chunk queue, oldest first
    end_stream,         \* audio_player_end_stream was called
    \* history of the session
    audio_seq,          \* audio chunks the demuxer has returned
    accepted,           \* ids of the chunks the queue accepted, in order
    last_push,          \* result of the most recent push
    retried,            \* the stash was retried in this buffer_one_chunk call
    last_chunk,         \* type of the chunk the most recent demux read returned
    last_consumed,      \* frame_index of the frame dropped or decoded last
    boc_result,         \* what the most recent buffer_one_chunk call returned
    pace_log,           \* what the most recent pacing call did
    \* the container byte by byte, and the parser over it
    container,          \* the file on the card
    parser,             \* the avi_parser_t
    chunk,              \* the avi_chunk_t the most recent call filled
    ret,                \* what the most recent parser call returned
    in_call,            \* avi_parser_next_chunk is inside its scan loop
    call_pos,           \* the cursor when the call in progress was made
    header_pos,         \* the cursor where the last header was read
    scan_log,           \* <<type, size>> of the chunks returned since rewind
    prev_scan,          \* the scan before the last rewind
    rewinds,            \* calls of avi_parser_rewind so far
    \* audio_player.c
    i2s_tx_handle,        \* audio_player_init got the I2S channel of the BSP
    audio_task_handle,    \* 0 (NULL), or the number of the task created
    audio_playing,
    audio_stop_requested,
    samples_written,      \* the 64-bit counter as its two 32-bit words
    amplifier,            \* what bsp_audio_set_amplifier was last called with
    apc,                  \* where the driver is inside the audio player
    in_start,             \* audio_player_stop was called by audio_player_start
    timeout_ms,           \* the local of audio_player_stop
    handle_seen,          \* audio_task_handle as line 155 read it
    tasks,                \* the audio tasks created so far
    position,             \* the read of audio_player_get_position_ms
    held,                 \* the values samples_written was assigned
    stop_returned,        \* audio_player_stop has returned, no start since
    flushed,              \* silence was written by the running stop
    writes,               \* sink writes of all tasks so far
    media,                \* the preloaded audio stream and its read position
    menu_state,           \* the ui_menu_state_t of main.c
    menu_call             \* the last call of ui_menu_handle_input

vars == <<pc, file, started, sessions, video_buffer_memory, video_fps, frame_duration_ms, video_frames,
          video_write_idx, video_read_idx, video_buffered, next_frame_index,
          end_of_file, current_frame, video_ended, pending_audio_data,
          pending_audio_size, chunks_read, elapsed_ms, start_time_captured,
          parser_pos, oversized,
          audio_queue, end_stream, audio_seq, accepted, last_push, retried,
          last_chunk, last_consumed, boc_result, pace_log,
          container, parser, chunk, ret, in_call, call_pos, header_pos,
          scan_log, prev_scan, rewinds,
          i2s_tx_handle, audio_task_handle, audio_playing,
          audio_stop_requested, samples_written, amplifier, apc, in_start,
          timeout_ms, handle_seen, tasks, position, held, stop_returned,
          flushed, writes, media, menu_state, menu_call>>

driverVars == <<pc, file, started, sessions, video_buffer_memory, video_fps, frame_duration_ms, video_frames,
          video_write_idx, video_read_idx, video_buffered, next_frame_index,
          end_of_file, current_frame, video_ended, pending_audio_data,
          pending_audio_size, chunks_read, elapsed_ms, start_time_captured,
          parser_pos, oversized,
          audio_queue, end_stream, audio_seq, accepted, last_push, retried,
          last_chunk, last_consumed, boc_result, pace_log>>
scanVars == <<chunk, ret, in_call, call_pos, header_pos, scan_log,
              prev_scan, rewinds>>
demuxVars == <<container, parser, scanVars>>
audioVars == <<i2s_tx_handle, audio_task_handle, audio_playing,
               audio_stop_requested, samples_written, amplifier, apc,
               in_start, timeout_ms, handle_seen, tasks, position, held,
               stop_returned, flushed, writes, media, menu_state, menu_call>>
menuVars == <<menu_state, menu_call>>

ringVars == <<video_frames, video_write_idx, video_read_idx, video_buffered,
              next_frame_index, last_consumed>>
stashVars == <<pending_audio_data, pending_audio_size>>
sessionVars == <<started, sessions, video_buffer_memory>>
clockVars == <<video_fps, frame_duration_ms, elapsed_ms, start_time_captured>>
parserVars == <<file, parser_pos, oversized, audio_seq, last_chunk>>

----------------------------------------------------------------------------
(* The audio chunk queue (audio_player.h:15-21; its implementation is not   *)
(* part of the sources, the queue follows the contract push -> Ok | Full)   *)

QueueHasRoom(q) == Len(q) < AUDIO_QUEUE_LENGTH

\* audio_player_push_chunk: ESP_OK on success, ESP_ERR_TIMEOUT if the queue
\* is still full when the bounded wait is over
audio_player_push_chunk(q) ==
    IF QueueHasRoom(q) THEN "ESP_OK" ELSE "ESP_ERR_TIMEOUT"

\* the queue after a push of chunk c (the payload is copied in)
QueueAfterPush(q, c) == IF QueueHasRoom(q) THEN Append(q, c) ELSE q

----------------------------------------------------------------------------
(* The demuxer as the driver sees it: what avi_parser_next_chunk may return *)

\* next_frame_index counts the video chunks returned so far (main.c:282,
\* 289), oversized the ones among them that exceed a ring slot
VideoOutcomes ==
    {[type |-> "AVI_CHUNK_VIDEO", size |-> s, id |-> 0] :
        s \in {z \in VideoSizes :
                 IF z <= VIDEO_FRAME_MAX_SIZE
                 THEN next_frame_index - oversized < file.regular
                 ELSE /\ oversized < file.oversized
                      /\ next_frame_index - oversized >= file.lead}}

AudioOutcomes ==
    IF audio_seq < file.audio
    THEN {[type |-> "AVI_CHUNK_AUDIO", size |-> s, id |-> audio_seq + 1] :
            s \in AudioSizes}
    ELSE {}

\* a video or audio chunk of at most frame_buffer_size bytes, or the end of
\* the movi list (also returned when a read fails)
NextChunkOutcomes ==
    {EndChunk} \cup
    (IF parser_pos < file.chunks
     THEN {c \in VideoOutcomes \cup AudioOutcomes : c.size <= MAX_FRAME_SIZE}
     ELSE {})

\* a uint32_t as its two 16-bit halves
U32(n) == [hi |-> n \div 2^16, lo |-> n % 2^16]

\* a + b in 32 bits
Add32(a, b) ==
    LET lo == a.lo + b.lo
        hi == a.hi + b.hi + (lo \div 2^16)
    IN  [hi |-> hi % 2^16, lo |-> lo % 2^16]

\* a > b
Greater32(a, b) == a.hi > b.hi \/ (a.hi = b.hi /\ a.lo > b.lo)

\* sizes above frame_buffer_size that a chunk header may declare: just above
\* the buffer, and the 32-bit value 0xFFFFFFF8
HugeHeaderSizes ==
    {z \in {U32(MAX_FRAME_SIZE + 1), [hi |-> 2^16 - 1, lo |-> 2^16 - 8]} :
        Greater32(z, U32(MAX_FRAME_SIZE))}

\* avi_parser.c:282-283: what the skip of a too large chunk adds to the
\* cursor; 8 + chunk_size is computed in 32 bits
SkipAdvance(size) == Add32(Add32(U32(8), size), U32(size.lo % 2))

\* headers of too large chunks the scan has passed in this session: every
\* other chunk passed was returned as video or audio
HugePassed == parser_pos - next_frame_index - audio_seq

----------------------------------------------------------------------------
(* The container on the card, byte by byte, and avi_parser.c over it.  File *)
(* offsets and sizes are 32-bit words (size_t and uint32_t of the target),  *)
(* kept as two 16-bit halves.                                               *)

\* a - b in 32 bits
Sub32(a, b) ==
    LET lo == a.lo - b.lo
        hi == a.hi - b.hi - (IF lo < 0 THEN 1 ELSE 0)
    IN  [hi |-> hi % 2^16, lo |-> lo % 2^16]

\* a <= b
LessEq32(a, b) == ~Greater32(a, b)

\* the value of a word below 2^31
Val(u) == u.hi * 2^16 + u.lo

\* avi_parser.c:18-22: the chunk ids the parser compares as a whole
FOURCC_RIFF == <<"R", "I", "F", "F">>
FOURCC_AVI == <<"A", "V", "I", " ">>
FOURCC_LIST == <<"L", "I", "S", "T">>
FOURCC_HDRL == <<"h", "d", "r", "l">>
FOURCC_MOVI == <<"m", "o", "v", "i">>

\* four bytes of zeros, read where the file holds no header
ZeroTag == <<"nul", "nul", "nul", "nul">>
ZeroHeader == [id |-> ZeroTag, size |-> U32(0), list |-> ZeroTag]

\* the kinds of chunk a movi list of the playlist is made of
MoviKinds == {"dc", "db", "wb", "ix", "over", "wrap", "back", "far"}

\* the header of a chunk of kind k laid at offset p of a movi list whose data
\* starts at offset start: its id and the size it declares
KindHeader(k, p, start) ==
    [list |-> ZeroTag,
     id |-> CASE k = "db" -> <<"0", "0", "d", "b">>
              [] k = "wb" -> <<"0", "1", "w", "b">>
              [] k = "ix" -> <<"i", "x", "0", "0">>
              [] OTHER -> <<"0", "0", "d", "c">>,
     size |-> CASE k = "dc" -> U32(MAX_FRAME_SIZE)
                [] k = "db" -> U32(5)
                [] k = "wb" -> U32(3)
                [] k = "ix" -> U32(4)
                [] k = "over" -> U32(MAX_FRAME_SIZE + 1)
                [] k = "past" -> U32(MAX_FRAME_SIZE + 2)
                \* 0xFFFFFFF8
                [] k = "wrap" -> [hi |-> 2^16 - 1, lo |-> 2^16 - 8]
                \* 2^32 - 8 - (p - start)
                [] k = "back" -> Sub32(U32(0), U32(8 + p - start))
                \* 0x80000000
                [] k = "far" -> [hi |-> 2^15, lo |-> 0]]

\* the bytes a chunk of kind k takes in the file: header, payload and
\* padding; the file does not hold the payload that the kinds "wrap",
\* "back", "far" and "past" declare, and the movi list does not count it
KindSpan(k) ==
    CASE k = "dc" -> 8 + MAX_FRAME_SIZE
      [] k = "db" -> 8 + 5 + 1
      [] k = "wb" -> 8 + 3 + 1
      [] k = "ix" -> 8 + 4
      [] k = "over" -> 8 + MAX_FRAME_SIZE + 1 + 1
      [] OTHER -> 8

\* the headers of the chunks `kinds`, laid one after the other from offset p
RECURSIVE LayoutAt(_, _, _)
LayoutAt(kinds, p, start) ==
    IF kinds = <<>> THEN <<>>
    ELSE (p :> KindHeader(Head(kinds), p, start)) @@
         LayoutAt(Tail(kinds), p + KindSpan(Head(kinds)), start)

\* the offset after the last of them
RECURSIVE LayoutEnd(_, _)
LayoutEnd(kinds, p) ==
    IF kinds = <<>> THEN p
    ELSE LayoutEnd(Tail(kinds), p + KindSpan(Head(kinds)))

\* A file: 12 bytes of RIFF header (ids riff and avi), a LIST hdrl chunk at
\* offset 12, and at offset 88 the chunks `kinds` inside a LIST chunk of type
\* list; the last `cut` bytes are missing (a truncated copy).  info is what
\* the hdrl list says about the streams.
MakeContainer(riff, avi, list, kinds, cut, fps, has_audio) ==
    LET start == 88 + 12
        end == LayoutEnd(kinds, start)
    IN  [riff |-> riff, avi |-> avi,
         file_size |-> end - cut,
         info |-> [fps |-> fps, has_audio |-> has_audio],
         kinds |-> kinds,
         at |-> (12 :> [id |-> FOURCC_LIST, size |-> U32(4 + 64),
                        list |-> FOURCC_HDRL]) @@
                (88 :> [id |-> FOURCC_LIST, size |-> U32(4 + end - start),
                        list |-> list]) @@
                LayoutAt(kinds, start, start)]

\* sequences over S of length 0 .. n
SeqsUpTo(S, n) == UNION {[1 .. k -> S] : k \in 0 .. n}

\* fread (avi_parser.c:40-42): count bytes at offset pos are read in full
\* only if the file holds them
read_bytes(c, pos, count) ==
    /\ LessEq32(count, U32(c.file_size))
    /\ LessEq32(pos, Sub32(U32(c.file_size), count))

\* the chunk header at offset pos
HeaderAt(c, pos) ==
    IF pos.hi < 2^15 /\ Val(pos) \in DOMAIN c.at
    THEN c.at[Val(pos)]
    ELSE ZeroHeader

\* avi_parser_t after the memset of avi_parser_open, and of a static one
\* that was never opened (main.c:69)
ZeroParser ==
    [file |-> FALSE, file_size |-> U32(0), movi_start |-> U32(0),
     movi_end |-> U32(0), current_pos |-> U32(0), frame_buffer |-> FALSE,
     frame_buffer_size |-> U32(0), info |-> [fps |-> 0, has_audio |-> FALSE]]

\* avi_parser.c:206-207, 129-130: the offset of the next chunk
NextOffset(offset, chunk_size) ==
    Add32(offset, SkipAdvance(chunk_size))

\* avi_parser.c:161-211: the scan of the top-level chunks for the movi list,
\* from offset; info is filled from the hdrl list on the way
RECURSIVE FindMovi(_, _, _)
FindMovi(c, p, offset) ==
    IF \/ Greater32(Add32(offset, U32(12)), p.file_size)
       \/ ~read_bytes(c, offset, U32(12))
    THEN [ret |-> "ESP_ERR_NOT_FOUND", parser |-> p]
    ELSE LET h == HeaderAt(c, offset) IN
         IF h.id = FOURCC_LIST /\ h.list = FOURCC_MOVI
         THEN [ret |-> "ESP_OK",
               parser |-> [p EXCEPT
                   !.movi_start = Add32(offset, U32(12)),
                   !.movi_end = Add32(Add32(offset, U32(8)), h.size),
                   !.current_pos = Add32(offset, U32(12))]]
         ELSE FindMovi(c,
                       IF h.id = FOURCC_LIST /\ h.list = FOURCC_HDRL
                       THEN [p EXCEPT !.info = c.info] ELSE p,
                       NextOffset(offset, h.size))

\* any twelve bytes pass for a RIFF header
SignatureOk_Any(riff_id, avi_id) == TRUE

\* avi_parser.c:149
SignatureOk(riff_id, avi_id) ==
    riff_id = FOURCC_RIFF /\ avi_id = FOURCC_AVI

\* avi_parser.c:135-212
parse_avi_headers(c, p) ==
    IF ~read_bytes(c, U32(0), U32(12))
    THEN [ret |-> "ESP_ERR_INVALID_STATE", parser |-> p]
    ELSE IF ~SignatureOk(c.riff, c.avi)
    THEN [ret |-> "ESP_ERR_INVALID_ARG", parser |-> p]
    ELSE FindMovi(c, p, U32(12))

\* avi_parser.c:214-254: the parser and the value returned; fopen_ok and
\* malloc_ok say whether fastopen and heap_caps_malloc succeed
OpenResult(c, fopen_ok, malloc_ok) ==
    IF ~fopen_ok
    THEN [ret |-> "ESP_ERR_NOT_FOUND", parser |-> ZeroParser]
    ELSE LET p1 == [ZeroParser EXCEPT !.file = TRUE,
                                     !.file_size = U32(c.file_size),
                                     !.frame_buffer_size = U32(MAX_FRAME_SIZE)]
         IN  IF ~malloc_ok
             THEN [ret |-> "ESP_ERR_NO_MEM",
                   parser |-> [p1 EXCEPT !.file = FALSE]]
             ELSE LET r == parse_avi_headers(c,
                               [p1 EXCEPT !.frame_buffer = TRUE])
                  IN  IF r.ret # "ESP_OK"
                      THEN [ret |-> r.ret,
                            parser |-> [r.parser EXCEPT
                                           !.frame_buffer = FALSE,
                                           !.file = FALSE]]
                      ELSE r

\* avi_parser.c:346-363
CloseResult(p) ==
    [p EXCEPT !.frame_buffer = FALSE, !.file = FALSE,
              !.file_size = U32(0), !.movi_start = U32(0),
              !.movi_end = U32(0), !.current_pos = U32(0)]

\* the cursor stays where the scan left it
RewindPos_Stay(p) == p.current_pos

\* avi_parser.c:342
RewindPos(p) == p.movi_start

\* a * 100 in 32 bits
Times100(a) ==
    LET lo == a.lo * 100
        hi == a.hi * 100 + (lo \div 2^16)
    IN  [hi |-> hi % 2^16, lo |-> lo % 2^16]

\* bit i of a word, and the word with only bit i set
Bit32(a, i) ==
    IF i >= 16 THEN (a.hi \div 2^(i - 16)) % 2 ELSE (a.lo \div 2^i) % 2
OneBit32(i) ==
    [hi |-> IF i >= 16 THEN 2^(i - 16) ELSE 0, lo |-> IF i < 16 THEN 2^i ELSE 0]

\* a / b in 32 bits, b # 0: long division from bit i down, with quotient q
\* and remainder r so far
RECURSIVE DivFrom(_, _, _, _, _)
DivFrom(a, b, i, q, r) ==
    IF i < 0 THEN q
    ELSE LET shifted == [hi |-> (r.hi * 2 + r.lo \div 2^15) % 2^16,
                         lo |-> (r.lo * 2 + Bit32(a, i)) % 2^16]
             fits == r.hi >= 2^15 \/ LessEq32(b, shifted)
         IN  DivFrom(a, b, i - 1,
                     IF fits THEN Add32(q, OneBit32(i)) ELSE q,
                     IF fits THEN Sub32(shifted, b) ELSE shifted)
Div32(a, b) == DivFrom(a, b, 31, U32(0), U32(0))

\* avi_parser.c:365-374: the value returned, as the 32-bit word that the
\* cast to int reinterprets; size_t is 32 bits wide on the target
avi_parser_get_progress(p) ==
    IF LessEq32(p.movi_end, p.movi_start) THEN U32(0)
    ELSE LET total == Sub32(p.movi_end, p.movi_start)
             current == Sub32(p.current_pos, p.movi_start)
         IN  Div32(Times100(current), total)

\* avi_parser.c:288-292, 311: the third and fourth byte of the id
IsVideoId(id) == id[3] = "d" /\ (id[4] = "c" \/ id[4] = "b")
IsAudioId(id) == id[3] = "w" /\ id[4] = "b"

EndResult(pos) ==
    [done |-> TRUE, ret |-> "ESP_ERR_NOT_FOUND",
     chunk |-> [type |-> "AVI_CHUNK_END", data |-> "NULL", size |-> U32(0)],
     pos |-> pos, header |-> pos]

\* a chunk is returned when it is one byte larger than the frame buffer
TooLarge_OffByOne(chunk_size, frame_buffer_size) ==
    Greater32(chunk_size, Add32(frame_buffer_size, U32(1)))

\* avi_parser.c:279
TooLarge(chunk_size, frame_buffer_size) ==
    Greater32(chunk_size, frame_buffer_size)

\* the padding byte of an odd chunk is not stepped over
PadOf_None(chunk_size) == U32(0)

\* avi_parser.c:305, 324: if (chunk_size & 1) current_pos++
PadOf(chunk_size) == U32(chunk_size.lo % 2)

\* avi_parser.c:304-305, 323-324: the cursor after a returned chunk
PosAfterChunk(pos, chunk_size) ==
    Add32(Add32(pos, Add32(U32(8), chunk_size)), PadOf(chunk_size))

\* avi_parser.c:267-337: one pass of the scan loop of avi_parser_next_chunk
\* with the cursor at pos: the call returns (done), or the cursor moves and
\* the loop goes on
LoopPass(c, p, pos) ==
    IF Greater32(Add32(pos, U32(8)), p.movi_end) THEN EndResult(pos)
    ELSE IF ~read_bytes(c, pos, U32(8)) THEN EndResult(pos)
    ELSE LET h == HeaderAt(c, pos) IN
         IF TooLarge(h.size, p.frame_buffer_size)
         THEN [done |-> FALSE, pos |-> NextOffset(pos, h.size),
               header |-> pos]
         ELSE IF IsVideoId(h.id) \/ IsAudioId(h.id)
         THEN IF ~read_bytes(c, Add32(pos, U32(8)), h.size)
              THEN EndResult(pos)
              ELSE [done |-> TRUE, ret |-> "ESP_OK",
                    chunk |-> [type |-> IF IsVideoId(h.id)
                                        THEN "AVI_CHUNK_VIDEO"
                                        ELSE "AVI_CHUNK_AUDIO",
                               data |-> "frame_buffer", size |-> h.size],
                    pos |-> PosAfterChunk(pos, h.size), header |-> pos]
         ELSE [done |-> FALSE, pos |-> NextOffset(pos, h.size),
               header |-> pos]

\* avi_parser.c:267-337: the whole scan loop from the cursor pos, at most
\* fuel + 1 passes of it; a scan that has not returned by then never does
RECURSIVE ScanFrom(_, _, _, _)
ScanFrom(c, p, pos, fuel) ==
    LET r == LoopPass(c, p, pos) IN
    IF r.done \/ fuel = 0 THEN r
    ELSE CHOOSE s \in {ScanFrom(c, p, q, fuel - 1) : q \in {r.pos}} : TRUE

----------------------------------------------------------------------------
(* buffer_one_chunk, main.c:242-298 *)

HasPending(size) == size > 0

\* the stash is given up after one retry, whatever the push returned
RetryClears_Always(result) == TRUE

RetryClears(result) == result = "ESP_OK"

\* main.c:244-249: first try to push any pending audio chunk
BocRetry ==
    /\ IF HasPending(pending_audio_size)
       THEN LET r == audio_player_push_chunk(audio_queue) IN
            /\ audio_queue' = QueueAfterPush(audio_queue, pending_audio_data)
            /\ accepted' = IF r = "ESP_OK"
                           THEN Append(accepted, pending_audio_data)
                           ELSE accepted
            /\ pending_audio_size' = IF RetryClears(r) THEN 0
                                     ELSE pending_audio_size
            /\ last_push' = r
            /\ retried' = TRUE
       ELSE /\ UNCHANGED <<audio_queue, accepted, pending_audio_size,
                           last_push>>
            /\ retried' = FALSE
    /\ UNCHANGED <<pending_audio_data, boc_result>>

\* the call goes on with N frames buffered
RingFull_OffByOne(buffered) == buffered > VIDEO_BUFFER_FRAMES

\* a pending audio chunk stops the call as a full ring does
RingFull_OrPendingAudio(buffered) ==
    buffered >= VIDEO_BUFFER_FRAMES \/ pending_audio_size > 0

RingFull(buffered) == buffered >= VIDEO_BUFFER_FRAMES

Stashable(size) == size <= PENDING_AUDIO_CAPACITY

FitsSlot(size) == size <= VIDEO_FRAME_MAX_SIZE

\* the value buffer_one_chunk returns when the demuxer returns c
BocResult(c) ==
    IF RingFull(video_buffered) THEN -1
    ELSE IF c.type = "AVI_CHUNK_END" THEN 1
    ELSE 0

\* main.c:264-276: an audio chunk is pushed, or saved when the queue is full
BocAudio(c) ==
    LET r == audio_player_push_chunk(audio_queue) IN
    /\ audio_queue' = QueueAfterPush(audio_queue, c.id)
    /\ accepted' = IF r = "ESP_OK" THEN Append(accepted, c.id) ELSE accepted
    /\ last_push' = r
    /\ IF r = "ESP_ERR_TIMEOUT" /\ Stashable(c.size)
       THEN /\ pending_audio_data' = c.id
            /\ pending_audio_size' = c.size
       ELSE UNCHANGED stashVars
    /\ audio_seq' = audio_seq + 1
    /\ UNCHANGED <<ringVars, end_of_file, oversized>>

\* the index runs past the last slot
NextSlot_NoWrap(i) == i + 1

\* main.c:291, 359, 375: the slot after slot i of the ring
NextSlot(i) == (i + 1) % VIDEO_BUFFER_FRAMES

\* the frame counter stays as it is when a frame is stored
FrameIndexAfterStore_Same(n) == n

\* main.c:289: frame_index = next_frame_index++
FrameIndexAfterStore(n) == n + 1

\* main.c:278-294: a video chunk is copied into the slot at video_write_idx
BocVideo(c) ==
    /\ IF FitsSlot(c.size)
       THEN /\ video_frames' = [video_frames EXCEPT ![video_write_idx] =
                                  [size |-> c.size,
                                   frame_index |-> next_frame_index,
                                   session |-> sessions]]
            /\ video_write_idx' = NextSlot(video_write_idx)
            /\ video_buffered' = video_buffered + 1
            /\ UNCHANGED oversized
       ELSE /\ oversized' = oversized + 1
            /\ UNCHANGED <<video_frames, video_write_idx, video_buffered>>
    /\ next_frame_index' = IF FitsSlot(c.size)
                           THEN FrameIndexAfterStore(next_frame_index)
                           ELSE next_frame_index + 1
    /\ UNCHANGED <<video_read_idx, last_consumed, end_of_file, audio_queue,
                   accepted, last_push, stashVars, audio_seq>>

\* main.c:251-298: the rest of the call, c being what the demuxer returns
BocRead(c) ==
    /\ retried' = FALSE
    /\ boc_result' = BocResult(c)
    /\ IF RingFull(video_buffered)
       THEN UNCHANGED <<ringVars, end_of_file, audio_queue, accepted,
                        last_push, stashVars, parserVars>>
       ELSE /\ UNCHANGED file
            /\ last_chunk' = c.type
            /\ IF c.type = "AVI_CHUNK_END"
               THEN /\ end_of_file' = TRUE
                    /\ UNCHANGED <<ringVars, audio_queue, accepted, last_push,
                                   stashVars, parser_pos, oversized, audio_seq>>
               ELSE /\ parser_pos' = parser_pos + 1
                    /\ IF c.type = "AVI_CHUNK_AUDIO"
                       THEN BocAudio(c)
                       ELSE BocVideo(c)

\* avi_parser.c:267-285, inside the avi_parser_next_chunk call of main.c:257:
\* the scan meets a header that declares more than frame_buffer_size and
\* skips it. When the skip moves the cursor the scan goes on with the next
\* header; when it does not, the same header is read again, and again.
ScanOversized ==
    /\ pc \in {"prebuffer_read", "topup_read", "scanning"}
    /\ IF pc = "scanning"
       THEN UNCHANGED vars
       ELSE /\ ~RingFull(video_buffered)
            /\ parser_pos < file.chunks
            /\ HugePassed < file.huge
            /\ \E size \in HugeHeaderSizes :
                  IF SkipAdvance(size) # U32(0)
                  THEN /\ parser_pos' = parser_pos + 1
                       /\ pc' = pc
                  ELSE /\ pc' = "scanning"
                       /\ UNCHANGED parser_pos
            /\ UNCHANGED <<file, sessionVars, clockVars, ringVars, end_of_file,
                           current_frame, video_ended, stashVars, chunks_read,
                           oversized, audio_queue, end_stream, audio_seq,
                           accepted, last_push, retried, last_chunk, pace_log,
                   boc_result>>
    /\ UNCHANGED <<demuxVars, audioVars>>

----------------------------------------------------------------------------
(* start_playback and prebuffer_chunks, main.c:133-210 and 302-317 *)

Clamp(x, lo, hi) == IF x < lo THEN lo ELSE IF x > hi THEN hi ELSE x

PrebufferTarget(fps) ==
    Clamp((PRE_BUFFER_TIME_MS * fps) \div 1000, 3, VIDEO_BUFFER_FRAMES - 2)

\* the loop reads on until one frame more than the target is buffered
PrebufferCond_OneMore ==
    video_buffered <= PrebufferTarget(video_fps) /\ ~end_of_file

\* main.c:309
PrebufferCond ==
    video_buffered < PrebufferTarget(video_fps) /\ ~end_of_file

\* the start time is taken with the resets, before the pre-buffer
ClockCapturedOnEntry_Yes == TRUE

\* main.c:170-177: the start time is not among the values start_playback
\* sets before it calls prebuffer_chunks
ClockCapturedOnEntry == FALSE

\* the stash of the session before is kept
StashSizeAtStart_Kept(size) == size

\* main.c:177: pending_audio_size = 0
StashSizeAtStart(size) == 0

\* main.c:148-193: take the frame rate of the opened container f, reset the
\* state
StartSession(f) ==
    /\ started' = TRUE
    /\ sessions' = sessions + 1
    /\ video_buffer_memory' = TRUE
    /\ start_time_captured' = ClockCapturedOnEntry
    /\ file' = f
    /\ video_fps' = (IF f.fps > 0 THEN f.fps ELSE 30)
    /\ frame_duration_ms' = 1000 \div (IF f.fps > 0 THEN f.fps ELSE 30)
    /\ video_write_idx' = 0
    /\ video_read_idx' = 0
    /\ video_buffered' = 0
    /\ next_frame_index' = 0
    /\ end_of_file' = FALSE
    /\ current_frame' = 0
    /\ video_ended' = FALSE
    /\ pending_audio_size' = StashSizeAtStart(pending_audio_size)
    /\ parser_pos' = 0
    /\ oversized' = 0
    /\ audio_queue' = <<>>
    /\ end_stream' = FALSE
    /\ audio_seq' = 0
    /\ accepted' = <<>>
    /\ last_push' = "none"
    /\ retried' = FALSE
    /\ last_chunk' = "none"
    /\ last_consumed' = -1
    /\ boc_result' = 0
    /\ pace_log' = NoPace
    /\ pc' = "prebuffer"
    /\ UNCHANGED <<video_frames, pending_audio_data, chunks_read, elapsed_ms>>

\* main.c:141-193: open the container, take its frame rate, reset the state
start_playback ==
    /\ pc = "menu"
    /\ ~started
    /\ \E f \in Files : StartSession(f)
    /\ UNCHANGED <<demuxVars, audioVars>>

\* main.c:309-310 and 199-209: the head of the pre-buffer loop; when the
\* loop is over the clock is started
PrebufferHead ==
    /\ pc = "prebuffer"
    /\ IF PrebufferCond
       THEN /\ BocRetry
            /\ pc' = "prebuffer_read"
            /\ UNCHANGED <<elapsed_ms, start_time_captured>>
       ELSE /\ elapsed_ms' = 0
            /\ start_time_captured' = TRUE
            /\ pc' = "playing"
            /\ UNCHANGED <<audio_queue, accepted, stashVars, last_push, retried,
                   boc_result>>
    /\ UNCHANGED <<sessionVars, video_fps, frame_duration_ms, ringVars,
                   end_of_file, current_frame, video_ended, chunks_read,
                   parserVars, end_stream, pace_log>>
    /\ UNCHANGED <<demuxVars, audioVars>>

\* main.c:310-311: the rest of the buffer_one_chunk call of the loop, c
\* being what the demuxer returns
PrebufferReturn(c) ==
    /\ BocRead(c)
    /\ IF BocResult(c) = 1
       THEN /\ elapsed_ms' = 0
            /\ start_time_captured' = TRUE
            /\ pc' = "playing"
       ELSE /\ pc' = "prebuffer"
            /\ UNCHANGED <<elapsed_ms, start_time_captured>>
    /\ UNCHANGED <<sessionVars, video_fps, frame_duration_ms, current_frame,
                   video_ended, chunks_read, end_stream, pace_log>>

PrebufferRead ==
    /\ pc = "prebuffer_read"
    /\ \E c \in NextChunkOutcomes : PrebufferReturn(c)
    /\ UNCHANGED <<demuxVars, audioVars>>

----------------------------------------------------------------------------
(* process_video_frame, main.c:320-408 *)

\* the top-up loop reads on after the end of the file
TopUpCond_IgnoreEof ==
    /\ video_buffered < VIDEO_BUFFER_FRAMES
    /\ chunks_read < max_chunks

\* the top-up loop does not count its reads
TopUpCond_NoLimit ==
    /\ video_buffered < VIDEO_BUFFER_FRAMES
    /\ ~end_of_file

\* main.c:325
TopUpCond ==
    /\ video_buffered < VIDEO_BUFFER_FRAMES
    /\ ~end_of_file
    /\ chunks_read < max_chunks

\* main.c:323-326: the head of the top-up loop, entered from the main loop
\* (a new call, chunks_read = 0) or after a chunk was buffered
TopUpHead ==
    /\ pc \in {"playing", "topup"}
    /\ IF TopUpCond
       THEN /\ BocRetry
            /\ pc' = "topup_read"
       ELSE /\ pc' = "pace"
            /\ UNCHANGED <<audio_queue, accepted, stashVars, last_push, retried,
                   boc_result>>
    /\ pace_log' = NoPace
    /\ UNCHANGED <<sessionVars, clockVars, ringVars, end_of_file, current_frame,
                   video_ended, chunks_read, parserVars, end_stream>>
    /\ UNCHANGED <<demuxVars, audioVars>>

\* main.c:242-249: buffer_one_chunk entered by a caller that does not look
\* at the ring or at end_of_file first; the call goes on as one of the
\* top-up loop does
DirectCall ==
    /\ pc = "playing"
    /\ ~TopUpCond
    /\ BocRetry
    /\ pc' = "topup_read"
    /\ pace_log' = NoPace
    /\ UNCHANGED <<sessionVars, clockVars, ringVars, end_of_file, current_frame,
                   video_ended, chunks_read, parserVars, end_stream>>
    /\ UNCHANGED <<demuxVars, audioVars>>

\* main.c:326-328: the rest of the buffer_one_chunk call of the loop, c
\* being what the demuxer returns
TopUpReturn(c) ==
    /\ BocRead(c)
    /\ IF BocResult(c) # 0
       THEN /\ pc' = "pace"
            /\ UNCHANGED chunks_read
       ELSE /\ pc' = "topup"
            /\ chunks_read' = chunks_read + 1
    /\ UNCHANGED <<sessionVars, clockVars, current_frame, video_ended,
                   end_stream, pace_log>>

TopUpRead ==
    /\ pc = "topup_read"
    /\ \E c \in NextChunkOutcomes : TopUpReturn(c)
    /\ UNCHANGED <<demuxVars, audioVars>>

\* the video is over as soon as the demuxer is, frames buffered or not
VideoEnd_AtEof(buffered, eof) == eof

\* main.c:332: nothing is buffered and nothing is left to read
VideoEnd(buffered, eof) == buffered = 0 /\ eof

\* main.c:339-340
ExpectedFrame(elapsed, duration) == elapsed \div duration

\* the pacer never waits for the clock
AheadOfSchedule_Never(cur, expected) == FALSE

\* main.c:343: the frame to show next is not due yet
AheadOfSchedule(cur, expected) == cur > expected

\* the check for an empty ring is missing
RingEmpty_Never(buffered) == FALSE

\* the pacer waits for a second frame before it shows one
RingEmpty_AtMostOne(buffered) == buffered <= 1

RingEmpty(buffered) == buffered = 0

\* the last buffered frame is dropped as well
DropCond_DropLast(frame_index, expected, buffered) ==
    frame_index < expected /\ buffered > 0

\* dropping stops with two frames left
DropCond_KeepTwo(frame_index, expected, buffered) ==
    frame_index < expected /\ buffered > 2

\* main.c:357: drop the front frame while it is late and not the last one
DropCond(frame_index, expected, buffered) ==
    frame_index < expected /\ buffered > 1

\* main.c:357-365: the drop loop, from read index ridx with `buffered`
\* frames in the ring; cur is current_frame
RECURSIVE DropLoop(_, _, _, _, _)
DropLoop(ridx, buffered, cur, expected, dropped) ==
    IF DropCond(video_frames[ridx].frame_index, expected, buffered)
    THEN DropLoop(NextSlot(ridx), buffered - 1,
                  video_frames[ridx].frame_index + 1, expected,
                  Append(dropped, video_frames[ridx].frame_index))
    ELSE [read_idx |-> ridx, buffered |-> buffered, current |-> cur,
          dropped |-> dropped]

\* current_frame is set to the frame shown, not to the one after it
CurrentAfterDecode_NoIncrement(decode_ok, frame_index, cur) ==
    IF decode_ok THEN frame_index ELSE cur

\* main.c:380-381: current_frame after the decoder returned
CurrentAfterDecode(decode_ok, frame_index, cur) ==
    IF decode_ok THEN frame_index + 1 ELSE cur

\* a frame the decoder rejected stays in the ring
BufferedAfterDecode_KeptOnError(decode_ok, buffered) ==
    IF decode_ok THEN buffered - 1 ELSE buffered

\* main.c:375-377: the frame handed to the decoder leaves the ring whatever
\* the decoder returned
BufferedAfterDecode(decode_ok, buffered) == buffered - 1

\* frame_index of the frames in the ring, front first
BufferedIndices ==
    [i \in 1 .. (IF video_buffered > 0 THEN video_buffered ELSE 0) |->
        video_frames[(video_read_idx + i - 1) % VIDEO_BUFFER_FRAMES].frame_index]

\* main.c:331-408: the pacing part of the call
Pace ==
    /\ pc = "pace"
    /\ VideoEnd(video_buffered, end_of_file) \/ frame_duration_ms # 0
    /\ chunks_read' = 0
    /\ IF VideoEnd(video_buffered, end_of_file)
       THEN \* end of video: process_video_frame returns true
            /\ end_stream' = TRUE
            /\ video_ended' = TRUE
            /\ pc' = "ended"
            /\ UNCHANGED <<video_read_idx, video_buffered, current_frame,
                           last_consumed, pace_log>>
       ELSE /\ video_ended' = FALSE
            /\ pc' = "playing"
            /\ UNCHANGED end_stream
            /\ LET expected == ExpectedFrame(elapsed_ms, frame_duration_ms) IN
               IF \/ AheadOfSchedule(current_frame, expected)
                  \/ RingEmpty(video_buffered)
               THEN \* ahead of schedule, or nothing buffered: wait
                    /\ pace_log' = [NoPace EXCEPT !.called = TRUE,
                                       !.expected = expected,
                                       !.current_before = current_frame,
                                       !.buffered_before = BufferedIndices,
                                       !.left = video_buffered]
                    /\ UNCHANGED <<video_read_idx, video_buffered,
                                   current_frame, last_consumed>>
               ELSE \E decode_ok \in BOOLEAN :
                    LET d == DropLoop(video_read_idx, video_buffered,
                                      current_frame, expected, <<>>)
                        frame == video_frames[d.read_idx]
                    IN  /\ video_read_idx' = NextSlot(d.read_idx)
                        /\ video_buffered' =
                               BufferedAfterDecode(decode_ok, d.buffered)
                        /\ last_consumed' = frame.frame_index
                        /\ current_frame' =
                               CurrentAfterDecode(decode_ok, frame.frame_index,
                                                  d.current)
                        /\ pace_log' = [called |-> TRUE,
                                        expected |-> expected,
                                        current_before |-> current_frame,
                                        buffered_before |-> BufferedIndices,
                                        dropped |-> d.dropped,
                                        left |-> d.buffered,
                                        decoded |-> <<frame.frame_index>>,
                                        decode_ok |-> decode_ok]
    /\ UNCHANGED <<sessionVars, clockVars, video_frames, video_write_idx,
                   next_frame_index, end_of_file, stashVars, parserVars,
                   audio_queue, accepted, last_push, retried,
                   boc_result>>
    /\ UNCHANGED <<demuxVars, audioVars>>

\* main.c:331-345 with frame_duration_ms = 0: the division of line 340 is
\* undefined.  The build either traps, or (the divide instruction of the
\* target) yields all ones, which is -1 as an int: current_frame is above
\* it and the call returns "not ended" with nothing displayed.
PaceDivideByZero ==
    /\ pc = "pace"
    /\ ~VideoEnd(video_buffered, end_of_file)
    /\ frame_duration_ms = 0
    /\ chunks_read' = 0
    /\ \E outcome \in {"trap", "all ones"} :
          IF outcome = "trap"
          THEN /\ pc' = "crashed"
               /\ UNCHANGED <<video_ended, pace_log>>
          ELSE /\ pc' = "playing"
               /\ video_ended' = FALSE
               /\ pace_log' = [NoPace EXCEPT !.called = TRUE,
                                  !.expected = -1,
                                  !.current_before = current_frame,
                                  !.buffered_before = BufferedIndices,
                                  !.left = video_buffered]
    /\ UNCHANGED <<sessionVars, clockVars, ringVars, end_of_file,
                   current_frame, stashVars, parserVars, audio_queue,
                   end_stream, accepted, last_push, retried, boc_result>>
    /\ UNCHANGED <<demuxVars, audioVars>>

----------------------------------------------------------------------------
(* stop_playback, main.c:213-228, called from the main loop on ESC          *)
(* (main.c:608-613) and when the video has ended (main.c:618-622)           *)

stop_playback ==
    /\ video_write_idx' = 0
    /\ video_read_idx' = 0
    /\ video_buffered' = 0
    /\ next_frame_index' = 0
    /\ end_of_file' = FALSE
    /\ current_frame' = 0
    /\ video_ended' = FALSE
    /\ audio_queue' = <<>>
    /\ pace_log' = NoPace
    /\ pc' = "menu"
    /\ UNCHANGED <<sessionVars, clockVars, video_frames, stashVars, chunks_read,
                   parserVars, end_stream, accepted, last_push, retried,
                   last_consumed,
                   boc_result>>
    /\ parser' = CloseResult(parser)
    /\ UNCHANGED <<container, scanVars, audioVars>>

StopOnEsc ==
    /\ pc = "playing"
    /\ stop_playback

StopAfterEnd ==
    /\ pc = "ended"
    /\ stop_playback

----------------------------------------------------------------------------
(* The environment: the wall clock and the audio task *)

\* the clock of the model stops once every frame of the container is due
MaxElapsedMs == (file.chunks + 1) * frame_duration_ms

\* time passes between two iterations of the main loop (main.c:641-670)
Tick ==
    /\ pc = "playing"
    /\ elapsed_ms < MaxElapsedMs
    /\ elapsed_ms' = elapsed_ms + ClockStepMs
    /\ UNCHANGED <<pc, file, sessionVars, video_fps, frame_duration_ms,
                   start_time_captured, ringVars,
                   end_of_file, current_frame, video_ended, stashVars,
                   chunks_read, parserVars, audio_queue, end_stream, accepted,
                   last_push, retried, pace_log,
                   boc_result>>
    /\ UNCHANGED <<demuxVars, audioVars>>

\* the audio task takes the oldest chunk from the queue
AudioTaskPop ==
    /\ pc # "menu"
    /\ audio_queue # <<>>
    /\ audio_queue' = Tail(audio_queue)
    /\ UNCHANGED <<pc, file, sessionVars, clockVars, ringVars, end_of_file,
                   current_frame, video_ended, stashVars, chunks_read,
                   parserVars, end_stream, accepted, last_push, retried,
                   pace_log,
                   boc_result>>
    /\ UNCHANGED <<demuxVars, audioVars>>

----------------------------------------------------------------------------

\* bytes missing at the end of a truncated copy
Cuts == {0, 2}

\* the files on the card: well-formed headers around any movi list, whole
\* or truncated, and files with a wrong signature or without a movi list
Containers ==
    {MakeContainer(FOURCC_RIFF, FOURCC_AVI, FOURCC_MOVI, kinds, cut, 10, TRUE) :
        kinds \in SeqsUpTo(MoviKinds, MaxChunks), cut \in Cuts}
    \cup
    {MakeContainer(sig[1], sig[2], list, <<"db">>, 0, 10, TRUE) :
        sig \in {<<FOURCC_RIFF, <<"W", "A", "V", "E">>>>,
                 <<<<"R", "I", "F", "X">>, FOURCC_AVI>>,
                 <<FOURCC_RIFF, FOURCC_AVI>>},
        list \in {FOURCC_MOVI, <<"I", "N", "F", "O">>}}

EmptyContainer ==
    MakeContainer(FOURCC_RIFF, FOURCC_AVI, FOURCC_MOVI, <<>>, 0, 30, FALSE)

NoChunk == [type |-> "none", data |-> "NULL", size |-> U32(0)]
NoScan == [chunks |-> <<>>, final |-> U32(0), complete |-> FALSE]

----------------------------------------------------------------------------
(* The state of the audio player, audio_player.c:34-40 *)

\* audio_player.c:31
PCM_BUFFER_SIZE == 4096

\* audio_player.c:148, 150: the local timeout_ms and the delay of one poll
STOP_TIMEOUT_MS == 500
STOP_POLL_MS == 10

\* a 64-bit value as its high word and its low word; the low word keeps its
\* 32 bits, the high word stays far below 2^32
Zero64 == [hi |-> 0, lo |-> U32(0)]

\* a + d in 64 bits, d a 32-bit value
Add64(a, d) ==
    LET lo == Add32(a.lo, d) IN
    [hi |-> IF Greater32(a.lo, lo) THEN a.hi + 1 ELSE a.hi, lo |-> lo]

Less64(a, b) == a.hi < b.hi \/ (a.hi = b.hi /\ Greater32(b.lo, a.lo))

AudioTasks == 1 .. MaxAudioTasks

\* a task that was not created yet
NoTask == [pc |-> "none", base |-> Zero64, sum |-> Zero64]

NoPosition == [phase |-> "none", value |-> Zero64]

\* media_loader.c:216-227: a preloaded_media_t without audio data
NoMedia == [audio_data |-> <<>>, audio_pos |-> 0]

\* the file-scope initialisers (audio_player.c:34-40) and audio_player_init
\* (audio_player.c:52-90), which enables the amplifier when it got the
\* channel
AudioInit ==
    /\ audio_task_handle = 0
    /\ audio_playing = FALSE
    /\ audio_stop_requested = FALSE
    /\ samples_written = Zero64
    /\ amplifier = i2s_tx_handle
    /\ apc = "idle"
    /\ in_start = FALSE
    /\ timeout_ms = 0
    /\ handle_seen = 0
    /\ tasks = [t \in AudioTasks |-> NoTask]
    /\ position = NoPosition
    /\ held = {Zero64}
    /\ stop_returned = FALSE
    /\ flushed = FALSE
    /\ writes = 0

\* the audio player after a successful audio_player_init
AudioIdle ==
    /\ i2s_tx_handle = TRUE
    /\ AudioInit
    /\ media = NoMedia

\* the static avi_parser of main.c:69 before it is opened
ParserInit ==
    /\ parser = ZeroParser
    /\ chunk = NoChunk
    /\ ret = "none"
    /\ in_call = FALSE
    /\ call_pos = U32(0)
    /\ header_pos = U32(0)
    /\ scan_log = <<>>
    /\ prev_scan = NoScan
    /\ rewinds = 0

\* a loaded playlist, of which the menu reads the number of videos only
\* (media_loader.h:24-28)
Playlist(n) == [video_count |-> n]

\* no call of ui_menu_handle_input yet
NoMenuCall == [up |-> FALSE, down |-> FALSE, enter |-> FALSE, ret |-> FALSE,
               selected_entry |-> -1]

\* ui_menu.c:22-27: the menu after ui_menu_init(state, playlist)
ui_menu_init(playlist) ==
    /\ menu_state = [playlist |-> playlist, selected_index |-> 0,
                     scroll_offset |-> 0, needs_redraw |-> TRUE]
    /\ menu_call = NoMenuCall

\* the driver before the first session (main.c:69-86)
DriverInit ==
    /\ pc = "menu"
    /\ started = FALSE
    /\ sessions = 0
    /\ video_buffer_memory = FALSE
    /\ video_fps = 30
    /\ frame_duration_ms = 33
    /\ video_frames = [i \in Slots |-> [size |-> 0, frame_index |-> 0,
                                          session |-> 0]]
    /\ video_write_idx = 0
    /\ video_read_idx = 0
    /\ video_buffered = 0
    /\ next_frame_index = 0
    /\ end_of_file = FALSE
    /\ current_frame = 0
    /\ video_ended = FALSE
    /\ pending_audio_data = 0
    /\ pending_audio_size = 0
    /\ chunks_read = 0
    /\ elapsed_ms = 0
    /\ start_time_captured = FALSE
    /\ parser_pos = 0
    /\ oversized = 0
    /\ audio_queue = <<>>
    /\ end_stream = FALSE
    /\ audio_seq = 0
    /\ accepted = <<>>
    /\ last_push = "none"
    /\ retried = FALSE
    /\ file = [fps |-> 0, chunks |-> 0, audio |-> 0, regular |-> 0,
               oversized |-> 0, lead |-> 0, huge |-> 0]
    /\ last_chunk = "none"
    /\ last_consumed = -1
    /\ boc_result = 0
    /\ pace_log = NoPace

Init ==
    /\ DriverInit
    /\ ui_menu_init(Playlist(1))
    /\ AudioIdle
    /\ container = EmptyContainer
    /\ ParserInit

Next ==
    \/ start_playback
    \/ PrebufferHead
    \/ PrebufferRead
    \/ TopUpHead
    \/ TopUpRead
    \/ Pace
    \/ StopOnEsc
    \/ StopAfterEnd
    \/ Tick
    \/ AudioTaskPop

Spec == Init /\ [][Next]_vars

\* The main loop (main.c:523-671) never stops iterating, and every iteration
\* takes time (the wait for vsync and vTaskDelay, main.c:641-670), so the
\* clock advances again and again between the pacing calls; the user is not
\* obliged to press ESC, and here never does.
NextNoEsc ==
    \/ start_playback
    \/ PrebufferHead
    \/ PrebufferRead
    \/ TopUpHead
    \/ TopUpRead
    \/ Pace
    \/ StopAfterEnd
    \/ Tick
    \/ AudioTaskPop

LiveSpec ==
    /\ Init
    /\ [][NextNoEsc]_vars
    /\ WF_vars(start_playback)
    /\ WF_vars(PrebufferHead)
    /\ WF_vars(PrebufferRead)
    /\ WF_vars(TopUpHead)
    /\ WF_vars(TopUpRead)
    /\ WF_vars(Pace)
    /\ WF_vars(StopAfterEnd)
    /\ SF_vars(Tick)

\* The same for any container, also one with chunk headers that declare
\* more than the parser's frame buffer holds.
NextAnyContainer ==
    \/ start_playback
    \/ PrebufferHead
    \/ PrebufferRead
    \/ TopUpHead
    \/ TopUpRead
    \/ ScanOversized
    \/ Pace
    \/ StopAfterEnd
    \/ Tick
    \/ AudioTaskPop

LiveSpecAnyContainer ==
    /\ Init
    /\ [][NextAnyContainer]_vars
    /\ WF_vars(start_playback)
    /\ WF_vars(PrebufferHead)
    /\ WF_vars(PrebufferRead)
    /\ WF_vars(TopUpHead)
    /\ WF_vars(TopUpRead)
    /\ WF_vars(Pace)
    /\ WF_vars(StopAfterEnd)
    /\ SF_vars(Tick)

\* The functions of the pipeline driver called in any order: besides the calls
\* the main loop makes, buffer_one_chunk is called with the ring full and
\* after the end of the file.
NextAnyCall ==
    \/ start_playback
    \/ PrebufferHead
    \/ PrebufferRead
    \/ TopUpHead
    \/ DirectCall
    \/ TopUpRead
    \/ Pace
    \/ StopOnEsc
    \/ StopAfterEnd
    \/ Tick
    \/ AudioTaskPop

AnyCallSpec == Init /\ [][NextAnyCall]_vars

----------------------------------------------------------------------------
(* The parser on its own: a caller opens a file of the card and calls       *)
(* avi_parser_next_chunk, avi_parser_rewind and avi_parser_close in any     *)
(* order. A call of avi_parser_next_chunk is one step per pass of its scan  *)
(* loop, so that a scan that does not end is a behaviour of the model.      *)

\* avi_parser_open, avi_parser.c:214-254
avi_parser_open ==
    /\ ~in_call
    /\ parser = ZeroParser
    /\ \E fopen_ok \in BOOLEAN, malloc_ok \in BOOLEAN :
          LET r == OpenResult(container, fopen_ok, malloc_ok) IN
          /\ parser' = r.parser
          /\ ret' = r.ret
    /\ scan_log' = <<>>
    /\ prev_scan' = NoScan
    /\ rewinds' = 0
    /\ UNCHANGED <<container, chunk, in_call, call_pos, header_pos>>
    /\ UNCHANGED <<driverVars, audioVars>>

\* avi_parser_next_chunk, avi_parser.c:260-265: the argument check
avi_parser_next_chunk ==
    /\ ~in_call
    /\ Len(scan_log) <= MaxChunks
    /\ IF ~parser.file
       THEN /\ ret' = "ESP_ERR_INVALID_ARG"
            /\ UNCHANGED <<in_call, call_pos>>
       ELSE /\ in_call' = TRUE
            /\ call_pos' = parser.current_pos
            /\ UNCHANGED ret
    /\ UNCHANGED <<container, parser, chunk, header_pos, scan_log, prev_scan,
                   rewinds>>
    /\ UNCHANGED <<driverVars, audioVars>>

\* avi_parser.c:267-337: one pass of the scan loop
ScanLoop ==
    /\ in_call
    /\ LET r == LoopPass(container, parser, parser.current_pos) IN
       /\ parser' = [parser EXCEPT !.current_pos = r.pos]
       /\ header_pos' = r.header
       /\ IF r.done
          THEN /\ in_call' = FALSE
               /\ ret' = r.ret
               /\ chunk' = r.chunk
               /\ scan_log' = IF r.ret = "ESP_OK"
                               THEN Append(scan_log,
                                           <<r.chunk.type, r.chunk.size>>)
                               ELSE scan_log
          ELSE UNCHANGED <<in_call, ret, chunk, scan_log>>
    /\ UNCHANGED <<container, call_pos, prev_scan, rewinds>>
    /\ UNCHANGED <<driverVars, audioVars>>

\* avi_parser_rewind, avi_parser.c:340-344
avi_parser_rewind ==
    /\ ~in_call
    /\ parser.file
    /\ rewinds < MaxRewinds
    /\ parser' = [parser EXCEPT !.current_pos = RewindPos(parser)]
    /\ prev_scan' = [chunks |-> scan_log, final |-> parser.current_pos,
                     complete |-> (ret = "ESP_ERR_NOT_FOUND")]
    /\ scan_log' = <<>>
    /\ rewinds' = rewinds + 1
    /\ ret' = "none"
    /\ UNCHANGED <<container, chunk, in_call, call_pos, header_pos>>
    /\ UNCHANGED <<driverVars, audioVars>>

\* avi_parser_close, avi_parser.c:346-363
avi_parser_close ==
    /\ ~in_call
    /\ parser.file
    /\ parser' = CloseResult(parser)
    /\ ret' = "none"
    /\ UNCHANGED <<container, chunk, in_call, call_pos, header_pos, scan_log,
                   prev_scan, rewinds>>
    /\ UNCHANGED <<driverVars, audioVars>>

ParserSpecInit ==
    /\ DriverInit
    /\ ui_menu_init(Playlist(1))
    /\ AudioIdle
    /\ container \in Containers
    /\ ParserInit

NextParser ==
    \/ avi_parser_open
    \/ avi_parser_next_chunk
    \/ ScanLoop
    \/ avi_parser_rewind
    \/ avi_parser_close

ParserSpec == ParserSpecInit /\ [][NextParser]_vars

\* files whose movi list may end with a header that declares more payload
\* than the list and the file hold
OvershootKinds == {"db", "wb", "over", "far", "past"}
OvershootContainers ==
    {MakeContainer(FOURCC_RIFF, FOURCC_AVI, FOURCC_MOVI, kinds, cut, 10, TRUE) :
        kinds \in SeqsUpTo(OvershootKinds, MaxChunks), cut \in Cuts}

OvershootSpecInit ==
    /\ DriverInit
    /\ ui_menu_init(Playlist(1))
    /\ AudioIdle
    /\ container \in OvershootContainers
    /\ ParserInit

\* the parser on its own over these files
OvershootSpec == OvershootSpecInit /\ [][NextParser]_vars


----------------------------------------------------------------------------
(* Properties *)

InSession == pc # "menu"

AtBocRead == pc \in {"prebuffer_read", "topup_read"}

Count(seq, x) == Cardinality({i \in DOMAIN seq : seq[i] = x})

Last(seq) == seq[Len(seq)]

\* C1: in every reachable state the ring buffer count satisfies
\* 0 <= video_buffered <= VIDEO_BUFFER_FRAMES.
C1_RingBound ==
    0 <= video_buffered /\ video_buffered <= VIDEO_BUFFER_FRAMES

\* the ring is full, after the pre-buffer and a top-up
C1_Witness ==
    pc = "pace" /\ video_buffered = VIDEO_BUFFER_FRAMES

\* C2 (as claimed): every audio chunk the demuxer has returned was accepted
\* by the queue exactly once, or is the chunk waiting in the stash and was
\* not accepted yet; when the session has ended the stash is empty.
C2_EveryAudioChunkAcceptedOnce ==
    /\ \A id \in 1 .. audio_seq :
          \/ Count(accepted, id) = 1
          \/ /\ Count(accepted, id) = 0
             /\ pending_audio_size > 0
             /\ pending_audio_data = id
    /\ (pc = "ended" => pending_audio_size = 0)

\* C3 (as claimed): the queue accepts the audio chunks in the order in which
\* the demuxer returned them.
C3_AcceptedInDemuxOrder ==
    \A i, j \in DOMAIN accepted : i < j => accepted[i] < accepted[j]

\* C4 (as claimed): during a session the stash is non-empty only if the most
\* recent push to the audio queue failed.
C4_StashOnlyAfterFailedPush ==
    (InSession /\ pending_audio_size > 0) => last_push = "ESP_ERR_TIMEOUT"

\* C5: with a chunk in the stash, the demuxer is read only after the push of
\* the stashed chunk was attempted in the same call; within a session the
\* stash is emptied only by a retry that the queue accepted; a retry that
\* fails leaves the stashed chunk and its size as they were.
C5_RetryBeforeRead ==
    [][ /\ ( /\ pending_audio_size > 0
             /\ (parser_pos' # parser_pos \/ (end_of_file' /\ ~end_of_file)) )
            => retried
        /\ (InSession /\ pending_audio_size > 0 /\ pending_audio_size' = 0)
            => /\ retried'
               /\ last_push' = "ESP_OK"
               /\ accepted' = Append(accepted, pending_audio_data)
        /\ (retried' /\ last_push' = "ESP_ERR_TIMEOUT")
            => UNCHANGED <<pending_audio_data, pending_audio_size>>
      ]_vars

\* the retry of the stashed chunk has just failed, the chunk is still in the
\* stash, and the call is about to read the demuxer
C5_Witness ==
    /\ AtBocRead
    /\ retried
    /\ last_push = "ESP_ERR_TIMEOUT"
    /\ pending_audio_size > 0
    /\ pending_audio_data = audio_seq

C7_NeverDropsLastFrame ==
    ( /\ pace_log.called
      /\ pace_log.buffered_before # <<>>
      /\ pace_log.current_before <= pace_log.expected )
    => /\ \A i \in DOMAIN pace_log.dropped :
             pace_log.dropped[i] < pace_log.expected
       /\ pace_log.left >= 1
       /\ Len(pace_log.dropped) < Len(pace_log.buffered_before)
       /\ Len(pace_log.decoded) = 1

\* the pacer was far behind: it dropped at least two frames and decoded the
\* last buffered one, itself late
C7_Witness ==
    /\ pace_log.called
    /\ Len(pace_log.dropped) >= 2
    /\ pace_log.left = 1
    /\ Len(pace_log.decoded) = 1
    /\ pace_log.decoded[1] + 1 < pace_log.expected

\* frame_index of the frames the most recent pacing call found in the ring
\* are all below expected_frame
AllBufferedLate ==
    \A i \in DOMAIN pace_log.buffered_before :
        pace_log.buffered_before[i] < pace_log.expected

\* C8 (as claimed): a non-empty ring leads to a frame being displayed, under
\* repeated pacing ticks and an advancing clock.
C8_EventuallyDisplays ==
    (InSession /\ video_buffered > 0)
        ~> (pace_log.called /\ pace_log.decode_ok)

\* C8 (amended): a non-empty ring leads to a frame being handed to the
\* decoder, under repeated pacing ticks and an advancing clock.
C8_EventuallyDecodes ==
    (InSession /\ video_buffered > 0)
        ~> (pace_log.called /\ Len(pace_log.decoded) = 1)

\* after the clock had advanced the pacer handed a buffered frame to the
\* decoder, which failed on it: nothing was displayed
C8_Witness ==
    /\ pace_log.called
    /\ pace_log.buffered_before # <<>>
    /\ pace_log.expected > 0
    /\ Len(pace_log.decoded) = 1
    /\ ~pace_log.decode_ok

\* C9 (as claimed): when expected_frame is greater than the frame_index of
\* each of the k >= 1 buffered frames, the call drops the first k-1 frames,
\* hands the last one to the decoder, leaves the ring empty and sets
\* current_frame to that frame's frame_index + 1.
C9_DropsAllButLast ==
    ( /\ pace_log.called
      /\ pace_log.buffered_before # <<>>
      /\ AllBufferedLate )
    => /\ pace_log.dropped =
             SubSeq(pace_log.buffered_before, 1,
                    Len(pace_log.buffered_before) - 1)
       /\ pace_log.decoded = <<Last(pace_log.buffered_before)>>
       /\ video_buffered = 0
       /\ current_frame = Last(pace_log.buffered_before) + 1

\* C9 (amended): as C9, current_frame being set to the last frame's
\* frame_index + 1 when the decoder succeeds; when it fails current_frame is
\* the frame_index + 1 of the last dropped frame, or unchanged when nothing
\* was dropped.
C9_DropsAllButLastDecodeOk ==
    ( /\ pace_log.called
      /\ pace_log.buffered_before # <<>>
      /\ AllBufferedLate )
    => /\ pace_log.dropped =
             SubSeq(pace_log.buffered_before, 1,
                    Len(pace_log.buffered_before) - 1)
       /\ pace_log.decoded = <<Last(pace_log.buffered_before)>>
       /\ video_buffered = 0
       /\ current_frame =
             IF pace_log.decode_ok
             THEN Last(pace_log.buffered_before) + 1
             ELSE IF pace_log.dropped # <<>>
             THEN Last(pace_log.dropped) + 1
             ELSE pace_log.current_before

\* three frames were buffered, all late: two were dropped, the third was
\* decoded and shown
C9_Witness ==
    /\ pace_log.called
    /\ Len(pace_log.buffered_before) = 3
    /\ AllBufferedLate
    /\ Len(pace_log.dropped) = 2
    /\ pace_log.decode_ok
    /\ video_buffered = 0
    /\ current_frame = pace_log.decoded[1] + 1

\* C10 (as claimed): after a pacing call that found a frame in the ring,
\* current_frame is greater than it was before the call.
C10_CurrentFrameIncreases ==
    (pace_log.called /\ pace_log.buffered_before # <<>>)
    => current_frame > pace_log.current_before

\* C10 (amended): a pacing call never decreases current_frame, and leaves it
\* greater than before whenever it drops a frame or decodes one
\* successfully.
C10_CurrentFrameIncreasesOnDisplay ==
    pace_log.called
    => /\ current_frame >= pace_log.current_before
       /\ (pace_log.decode_ok \/ pace_log.dropped # <<>>)
            => current_frame > pace_log.current_before

\* a frame was decoded and shown without any frame being dropped
C10_Witness ==
    /\ pace_log.called
    /\ pace_log.decode_ok
    /\ pace_log.dropped = <<>>
    /\ current_frame = pace_log.decoded[1] + 1
    /\ current_frame > pace_log.current_before

\* the pacing part of a process_video_frame call is taken in this step
PaceStep == pc = "pace" /\ pc' # "pace"

\* C11 (as claimed): a pacing call that finds current_frame > expected_frame
\* consumes no frame, leaves the ring and current_frame as they are, decodes
\* nothing and returns 'not ended'.
C11_AheadIsNoOp ==
    [][ ( /\ PaceStep
          /\ current_frame > elapsed_ms \div frame_duration_ms )
        => /\ UNCHANGED <<video_read_idx, video_buffered, video_frames,
                          current_frame>>
           /\ pace_log'.decoded = <<>>
           /\ pace_log'.dropped = <<>>
           /\ ~video_ended'
           /\ pc' = "playing"
      ]_vars

\* C11 (amended): as C11, for a call that does not find the ring empty with
\* end_of_file set; a call that does returns 'ended', whatever the clock.
C11_AheadIsNoOpUnlessEnded ==
    [][ ( /\ PaceStep
          /\ current_frame > elapsed_ms \div frame_duration_ms )
        => /\ UNCHANGED <<video_read_idx, video_buffered, video_frames,
                          current_frame>>
           /\ pace_log'.decoded = <<>>
           /\ pace_log'.dropped = <<>>
           /\ IF video_buffered = 0 /\ end_of_file
              THEN video_ended' /\ pc' = "ended"
              ELSE ~video_ended' /\ pc' = "playing"
      ]_vars

\* frame 0 was displayed at elapsed 0 ms, and the next call, the clock still
\* below one frame duration, waited with a frame in the ring
C11_Witness ==
    /\ pace_log.called
    /\ pace_log.expected = 0
    /\ pace_log.current_before = 1
    /\ pace_log.buffered_before # <<>>
    /\ pace_log.decoded = <<>>
    /\ current_frame = 1
    /\ pc = "playing"

\* prebuffer_chunks has returned and process_video_frame was not called yet
AfterPrebuffer == pc = "playing" /\ ~pace_log.called

\* C12: prebuffer_chunks never has more than target = clamp(PRE_BUFFER_TIME_MS
\* * fps / 1000, 3, N - 2) frames buffered, and returns with exactly target
\* frames buffered, or else with fewer and end_of_file set.
C12_PrebufferReachesTarget ==
    LET t == (PRE_BUFFER_TIME_MS * video_fps) \div 1000
        target == IF t < 3 THEN 3
                  ELSE IF t > VIDEO_BUFFER_FRAMES - 2
                       THEN VIDEO_BUFFER_FRAMES - 2
                       ELSE t
    IN  /\ pc \in {"prebuffer", "prebuffer_read"} => video_buffered <= target
        /\ AfterPrebuffer =>
              \/ video_buffered = target /\ ~end_of_file
              \/ video_buffered < target /\ end_of_file

\* the pre-buffer of a 60 fps container has returned with the target at its
\* upper limit of N - 2 frames
C12_Witness ==
    /\ AfterPrebuffer
    /\ video_fps = 60
    /\ video_buffered = VIDEO_BUFFER_FRAMES - 2
    /\ ~end_of_file

\* C13: playback_start_time_us is captured only when the pre-buffer loop is
\* over (the target is reached or end_of_file is set), and as long as it is
\* not captured no frame of the session was dropped or handed to the decoder.
C13_ClockStartsAfterPrebuffer ==
    [][ /\ (start_time_captured' /\ ~start_time_captured)
            => /\ pc \in {"prebuffer", "prebuffer_read"}
               /\ \/ video_buffered' >= PrebufferTarget(video_fps)
                  \/ end_of_file'
        /\ (InSession' /\ ~start_time_captured')
            => /\ pc' \in {"prebuffer", "prebuffer_read"}
               /\ ~pace_log'.called
               /\ video_read_idx' = 0
               /\ current_frame' = 0
      ]_vars

\* the start time was just captured, with video frames in the ring and audio
\* chunks in the queue, and nothing was paced yet
C13_Witness ==
    /\ start_time_captured
    /\ AfterPrebuffer
    /\ elapsed_ms = 0
    /\ video_buffered = PrebufferTarget(video_fps)
    /\ Len(audio_queue) > 0
    /\ video_read_idx = 0
    /\ current_frame = 0

\* C14 (as claimed): audio_player_end_stream is called in the step in which
\* end_of_file becomes true, so that within a session end_of_file is never
\* set without the end of the stream having been signalled.
C14_EndStreamAtEof ==
    [][ (end_of_file' /\ ~end_of_file) => end_stream' ]_vars

\* C15: a process_video_frame call reports 'ended' exactly when, after its
\* top-up, the ring is empty and end_of_file is set; the driver then does
\* nothing but stop_playback, which resets the ring and enters the menu, and
\* from the report on no frame is handed to the decoder.
C15_EndedIffDrainedAtEof ==
    [][ /\ PaceStep
            => /\ video_ended' <=> (video_buffered = 0 /\ end_of_file)
               /\ video_ended' <=> (pc' = "ended")
        /\ (pc = "ended" /\ pc' # pc)
            => /\ pc' = "menu"
               /\ video_buffered' = 0
               /\ video_read_idx' = 0
               /\ video_write_idx' = 0
               /\ ~end_of_file'
               /\ ~video_ended'
        /\ (pc = "ended" \/ (pc = "menu" /\ started))
            => /\ pc' \in {"ended", "menu"}
               /\ pace_log'.decoded = <<>>
      ]_vars

\* a session reported 'ended' (the end of the stream was signalled on that
\* path only), and the driver is back in the menu with the ring reset
C15_Witness ==
    /\ pc = "menu"
    /\ started
    /\ end_stream
    /\ next_frame_index = 0
    /\ video_buffered = 0
    /\ ~video_ended

\* C16 (as claimed): a started session eventually reports 'ended' and is
\* back in the menu, for any container, when the pacing ticks keep coming and
\* the clock advances.
C16_SessionEventuallyEnds ==
    InSession ~> (pc = "menu" /\ started /\ end_stream)

StrictlyIncreasing(seq) ==
    \A i, j \in DOMAIN seq : i < j => seq[i] < seq[j]

\* C17: during a session the frame_index values in the ring, from
\* video_read_idx towards video_write_idx, are strictly increasing, lie above
\* the frame_index of every frame dropped or decoded before and below the
\* demux counter next_frame_index; the frames one pacing call drops and then
\* decodes have strictly increasing frame_index values as well.
C17_FrameIndexIncreasing ==
    InSession =>
       /\ StrictlyIncreasing(<<last_consumed>> \o BufferedIndices
                                \o <<next_frame_index>>)
       /\ pace_log.decoded # <<>> =>
             /\ StrictlyIncreasing(pace_log.dropped \o pace_log.decoded)
             /\ last_consumed = pace_log.decoded[1]

\* a frame was decoded, and the ring holds two frames whose frame_index
\* values are not consecutive, an oversized frame between them having been
\* skipped
C17_Witness ==
    /\ InSession
    /\ pace_log.decoded # <<>>
    /\ last_consumed >= 0
    /\ video_buffered >= 2
    /\ BufferedIndices[2] > BufferedIndices[1] + 1

\* the indices of the ring agree with its count
RingIndicesConsistent ==
    /\ video_read_idx \in 0 .. (VIDEO_BUFFER_FRAMES - 1)
    /\ video_write_idx \in 0 .. (VIDEO_BUFFER_FRAMES - 1)
    /\ (video_read_idx + video_buffered) % VIDEO_BUFFER_FRAMES
          = video_write_idx

\* a step of buffer_one_chunk that stores a video frame
ProducerStep ==
    /\ AtBocRead
    /\ last_chunk' = "AVI_CHUNK_VIDEO"
    /\ video_write_idx' = (video_write_idx + 1) % VIDEO_BUFFER_FRAMES
    /\ video_buffered' = video_buffered + 1
    /\ video_read_idx' = video_read_idx

\* a step of process_video_frame that drops and decodes frames
ConsumerStep ==
    /\ PaceStep
    /\ video_buffered' < video_buffered
    /\ video_read_idx' = (video_read_idx + video_buffered - video_buffered')
                            % VIDEO_BUFFER_FRAMES
    /\ video_write_idx' = video_write_idx

\* start_playback or stop_playback sets the indices and the count to 0
ResetStep ==
    /\ pc = "menu" \/ pc' = "menu"
    /\ video_write_idx' = 0
    /\ video_read_idx' = 0
    /\ video_buffered' = 0

\* C18 (as claimed): the indices are within 0..N-1 and (video_read_idx +
\* video_buffered) mod N = video_write_idx in every state; only a producer
\* step changes video_write_idx or raises video_buffered, only a consumer
\* step changes video_read_idx or lowers video_buffered.
C18_IndexOwnership ==
    /\ []RingIndicesConsistent
    /\ [][ /\ ( \/ video_write_idx' # video_write_idx
                \/ video_buffered' > video_buffered ) => ProducerStep
           /\ ( \/ video_read_idx' # video_read_idx
                \/ video_buffered' < video_buffered ) => ConsumerStep
         ]_vars

\* C18 (amended): as C18, start_playback and stop_playback being the other
\* steps that change the indices and the count: they set all three to 0.
C18_IndexOwnershipInSession ==
    /\ []RingIndicesConsistent
    /\ [][ /\ ( \/ video_write_idx' # video_write_idx
                \/ video_buffered' > video_buffered )
                => (ProducerStep \/ ResetStep)
           /\ ( \/ video_read_idx' # video_read_idx
                \/ video_buffered' < video_buffered )
                => (ConsumerStep \/ ResetStep)
         ]_vars

\* the write index has wrapped around and is behind the read index, with
\* frames buffered across the end of the ring
C18_Witness ==
    /\ InSession
    /\ video_write_idx < video_read_idx
    /\ video_buffered > VIDEO_BUFFER_FRAMES - video_read_idx

\* the slots that hold the buffered frames
LiveSlots ==
    {(video_read_idx + k) % VIDEO_BUFFER_FRAMES :
        k \in 0 .. (video_buffered - 1)}

\* C19: no step changes the size or the frame_index stored in a slot that
\* holds a buffered frame, and the slot buffer_one_chunk writes a frame to
\* holds none.
C19_LiveSlotsNotOverwritten ==
    [][ /\ \A sl \in LiveSlots : video_frames'[sl] = video_frames[sl]
        /\ video_frames' # video_frames
            => /\ video_write_idx \notin LiveSlots
               /\ video_buffered < VIDEO_BUFFER_FRAMES
               /\ \A sl \in Slots \ {video_write_idx} :
                     video_frames'[sl] = video_frames[sl]
      ]_vars

\* a frame was written to a slot that had been used before, next to the
\* frames still buffered: the ring has taken more frames than it has slots
C19_Witness ==
    /\ InSession
    /\ last_chunk = "AVI_CHUNK_VIDEO"
    /\ next_frame_index > VIDEO_BUFFER_FRAMES
    /\ video_buffered >= 2
    /\ video_frames[(video_write_idx + VIDEO_BUFFER_FRAMES - 1)
                       % VIDEO_BUFFER_FRAMES].frame_index
          = next_frame_index - 1

\* the second half of a buffer_one_chunk call is taken in this step
BocReadStep == AtBocRead /\ pc' # pc

\* C20: called with N frames in the ring, buffer_one_chunk returns 'full'
\* and leaves the cursor of the demuxer, the ring, the frame counter and
\* end_of_file as they are; a call that gets a video chunk of at most slot
\* size from the demuxer finds a free slot and stores the chunk in it.
C20_NoFrameLostToFullRing ==
    [][ BocReadStep
        => /\ video_buffered >= VIDEO_BUFFER_FRAMES
               => /\ boc_result' = -1
                  /\ UNCHANGED <<parser_pos, audio_seq, oversized,
                                 video_frames, video_write_idx,
                                 video_read_idx, video_buffered,
                                 next_frame_index, end_of_file>>
           /\ ( /\ next_frame_index' = next_frame_index + 1
                /\ oversized' = oversized )
               => /\ video_buffered < VIDEO_BUFFER_FRAMES
                  /\ video_buffered' = video_buffered + 1
                  /\ video_frames'[video_write_idx].frame_index
                        = next_frame_index
                  /\ video_frames'[video_write_idx].size
                        <= VIDEO_FRAME_MAX_SIZE
      ]_vars

\* buffer_one_chunk was called with the ring full and a chunk left in the
\* container, and has returned 'full'
C20_Witness ==
    /\ pc = "pace"
    /\ boc_result = -1
    /\ video_buffered = VIDEO_BUFFER_FRAMES
    /\ ~end_of_file
    /\ parser_pos < file.chunks

----------------------------------------------------------------------------
(* The pipeline on a file of the card: start_playback opens the file with   *)
(* avi_parser_open, buffer_one_chunk gets its chunks from                   *)
(* avi_parser_next_chunk, stop_playback closes the parser, and the menu     *)
(* starts the next session.                                                 *)

\* the chunks the files played are made of
PlayKinds == {"db", "wb", "wrap"}

PlayContainers ==
    {c \in Containers : \A i \in DOMAIN c.kinds : c.kinds[i] \in PlayKinds}

CountKinds(kinds, K) == Cardinality({i \in DOMAIN kinds : kinds[i] \in K})

\* avi_parser_get_info (main.c:147): the frame rate of the opened file, and
\* the chunks its movi list holds
FileOf(c, info) ==
    [fps |-> info.fps, chunks |-> Len(c.kinds),
     audio |-> CountKinds(c.kinds, {"wb"}),
     regular |-> CountKinds(c.kinds, {"db"}),
     oversized |-> 0, lead |-> 0,
     huge |-> CountKinds(c.kinds, {"over", "wrap"})]

\* what the environment may refuse during start_playback: the file
\* (fastopen, avi_parser.c:222), the frame buffer of the parser
\* (avi_parser.c:235), the memory of the ring (main.c:160), the decoder
\* (main.c:180)
StartFailures == {"none", "fastopen", "frame_buffer", "ring", "decoder"}

\* main.c:133-185, 195-210 on the file of the card: all of start_playback
\* but its call of audio_player_start.  When the function returns an error
\* the main loop stays in the menu (main.c:588-594).
StartPlaybackOnCard ==
    /\ pc = "menu"
    /\ sessions < MaxSessions
    /\ \E refused \in StartFailures :
          LET r == OpenResult(container, refused # "fastopen",
                              refused # "frame_buffer")
              fps == IF r.parser.info.fps > 0 THEN r.parser.info.fps ELSE 30
          IN
          IF r.ret # "ESP_OK"
          THEN /\ parser' = r.parser
               /\ ret' = r.ret
               /\ UNCHANGED driverVars
          ELSE IF ~video_buffer_memory /\ refused = "ring"
          THEN /\ parser' = CloseResult(r.parser)
               /\ ret' = "ESP_ERR_NO_MEM"
               /\ video_fps' = fps
               /\ frame_duration_ms' = 1000 \div fps
               /\ UNCHANGED <<pc, file, sessionVars, ringVars, end_of_file,
                              current_frame, video_ended, stashVars,
                              chunks_read, elapsed_ms, start_time_captured,
                              parser_pos, oversized, audio_queue, end_stream,
                              audio_seq, accepted, last_push, retried,
                              last_chunk, boc_result, pace_log>>
          ELSE IF refused = "decoder"
          THEN /\ parser' = CloseResult(r.parser)
               /\ ret' = "ESP_FAIL"
               /\ video_fps' = fps
               /\ frame_duration_ms' = 1000 \div fps
               /\ video_buffer_memory' = TRUE
               /\ video_write_idx' = 0
               /\ video_read_idx' = 0
               /\ video_buffered' = 0
               /\ next_frame_index' = 0
               /\ end_of_file' = FALSE
               /\ current_frame' = 0
               /\ video_ended' = FALSE
               /\ pending_audio_size' = StashSizeAtStart(pending_audio_size)
               /\ UNCHANGED <<pc, file, started, sessions, video_frames,
                              last_consumed, pending_audio_data,
                              chunks_read, elapsed_ms, start_time_captured,
                              parser_pos, oversized, audio_queue, end_stream,
                              audio_seq, accepted, last_push, retried,
                              last_chunk, boc_result, pace_log>>
          ELSE /\ parser' = r.parser
               /\ ret' = r.ret
               /\ StartSession(FileOf(container, r.parser.info))
    /\ UNCHANGED <<container, chunk, in_call, call_pos, header_pos, scan_log,
                   prev_scan, rewinds>>

\* start_playback with the audio queue of the pipeline, the audio player
\* left aside
start_playback_card ==
    /\ StartPlaybackOnCard
    /\ UNCHANGED audioVars

\* main.c:256-257: the call of avi_parser_next_chunk, scan loop and all
DemuxCall ==
    IF ~parser.file
    THEN [done |-> TRUE, ret |-> "ESP_ERR_INVALID_ARG", chunk |-> chunk,
          pos |-> parser.current_pos, header |-> header_pos]
    ELSE ScanFrom(container, parser, parser.current_pos,
                  Len(container.kinds) + 1)

\* main.c:259
IsEof(r) == r.ret # "ESP_OK" \/ r.chunk.type = "AVI_CHUNK_END"

\* the chunk as the rest of buffer_one_chunk sees it
ChunkOf(r) ==
    IF IsEof(r) THEN EndChunk
    ELSE [type |-> r.chunk.type, size |-> Val(r.chunk.size),
          id |-> IF r.chunk.type = "AVI_CHUNK_AUDIO" THEN audio_seq + 1
                 ELSE 0]

\* the parser when the call has returned r
DemuxReturn(r) ==
    /\ parser' = [parser EXCEPT !.current_pos = r.pos]
    /\ chunk' = r.chunk
    /\ ret' = r.ret
    /\ call_pos' = parser.current_pos
    /\ header_pos' = r.header
    /\ UNCHANGED <<container, in_call, scan_log, prev_scan, rewinds,
                   audioVars>>

\* the scan loop does not end: the driver stays inside the call
DemuxHangs ==
    /\ pc' = "scanning"
    /\ in_call' = TRUE
    /\ UNCHANGED <<file, sessionVars, clockVars, ringVars, end_of_file,
                   current_frame, video_ended, stashVars, chunks_read,
                   parser_pos, oversized, audio_queue, end_stream, audio_seq,
                   accepted, last_push, retried, last_chunk, boc_result,
                   pace_log>>
    /\ UNCHANGED <<container, parser, chunk, ret, call_pos, header_pos,
                   scan_log, prev_scan, rewinds, audioVars>>

\* main.c:310-311 with the demuxer of avi_parser.c
PrebufferReadCard ==
    /\ pc = "prebuffer_read"
    /\ IF RingFull(video_buffered)
       THEN PrebufferReturn(EndChunk) /\ UNCHANGED <<demuxVars, audioVars>>
       ELSE \E r \in {DemuxCall} :
               IF r.done
               THEN \E c \in {ChunkOf(r)} :
                       PrebufferReturn(c) /\ DemuxReturn(r)
               ELSE DemuxHangs

\* main.c:326-328 with the demuxer of avi_parser.c
TopUpReadCard ==
    /\ pc = "topup_read"
    /\ IF RingFull(video_buffered)
       THEN TopUpReturn(EndChunk) /\ UNCHANGED <<demuxVars, audioVars>>
       ELSE \E r \in {DemuxCall} :
               IF r.done
               THEN \E c \in {ChunkOf(r)} :
                       TopUpReturn(c) /\ DemuxReturn(r)
               ELSE DemuxHangs

\* avi_parser_next_chunk called while the application is in the menu
NextChunkInMenu ==
    /\ pc = "menu"
    /\ avi_parser_next_chunk

CardInit ==
    /\ DriverInit
    /\ ui_menu_init(Playlist(1))
    /\ AudioIdle
    /\ container \in PlayContainers
    /\ ParserInit

NextCard ==
    \/ start_playback_card
    \/ PrebufferHead
    \/ PrebufferReadCard
    \/ TopUpHead
    \/ TopUpReadCard
    \/ Pace
    \/ StopOnEsc
    \/ StopAfterEnd
    \/ Tick
    \/ AudioTaskPop
    \/ NextChunkInMenu

\* the user may press ESC, and may start the file again from the menu
CardSpec == CardInit /\ [][NextCard]_vars

\* the first start of a file from the menu
FirstStart ==
    /\ ~started
    /\ start_playback_card

\* One session without ESC: the main loop keeps iterating and the clock
\* keeps advancing.
NextCardOnce ==
    \/ FirstStart
    \/ PrebufferHead
    \/ PrebufferReadCard
    \/ TopUpHead
    \/ TopUpReadCard
    \/ Pace
    \/ StopAfterEnd
    \/ Tick
    \/ AudioTaskPop

LiveCardSpec ==
    /\ CardInit
    /\ [][NextCardOnce]_vars
    /\ WF_vars(PrebufferHead)
    /\ WF_vars(PrebufferReadCard)
    /\ WF_vars(TopUpHead)
    /\ WF_vars(TopUpReadCard)
    /\ WF_vars(Pace)
    /\ WF_vars(StopAfterEnd)
    /\ SF_vars(Tick)

----------------------------------------------------------------------------
(* The demuxer *)

\* avi_parser_next_chunk has returned End on an open parser
ScanComplete == ~in_call /\ parser.file /\ ret = "ESP_ERR_NOT_FOUND"

\* C21: for a fixed container, a full scan (calls of avi_parser_next_chunk
\* until it returns End), avi_parser_rewind and a second full scan return
\* the same sequence of (type, size) pairs and leave the cursor at the same
\* position.
C21_RescanIdentical ==
    (ScanComplete /\ prev_scan.complete)
        => /\ scan_log = prev_scan.chunks
           /\ parser.current_pos = prev_scan.final

\* a second full scan is over: it returned a video and an audio chunk and
\* stepped over a chunk on the way
C21_Witness ==
    /\ ScanComplete
    /\ prev_scan.complete
    /\ rewinds = 1
    /\ \E i \in 1 .. Len(scan_log) : scan_log[i][1] = "AVI_CHUNK_VIDEO"
    /\ \E i \in 1 .. Len(scan_log) : scan_log[i][1] = "AVI_CHUNK_AUDIO"
    /\ Len(scan_log) < Len(container.kinds)

\* a pass of the scan loop that reads a header declaring more than the
\* frame buffer holds
SkipsTooLarge ==
    /\ in_call
    /\ LessEq32(Add32(parser.current_pos, U32(8)), parser.movi_end)
    /\ read_bytes(container, parser.current_pos, U32(8))
    /\ TooLarge(HeaderAt(container, parser.current_pos).size,
                parser.frame_buffer_size)

\* C22: every chunk avi_parser_next_chunk returns has a size of at most
\* frame_buffer_size; a chunk whose header declares more is not returned:
\* the pass that reads its header moves the cursor past it and the scan
\* goes on.
C22_OversizedSkippedNeverReturned ==
    /\ [](~in_call /\ ret = "ESP_OK"
            => LessEq32(chunk.size, parser.frame_buffer_size))
    /\ [][ SkipsTooLarge
            => /\ in_call'
               /\ Greater32(parser'.current_pos, parser.current_pos)
          ]_vars

\* the call in progress returns in this step
ReturnStep == in_call /\ ~in_call'

\* C23: a call that returns a chunk of size s whose header was read at
\* cursor p leaves the cursor at p + 8 + s + (s mod 2); no call of
\* avi_parser_next_chunk leaves the cursor below where the call found it,
\* and among the steps of an open parser only avi_parser_rewind moves the
\* cursor back, to movi_start.
C23_CursorAdvances ==
    [][ /\ (ReturnStep /\ ret' = "ESP_OK")
            => /\ header_pos'.hi < 2^15
               /\ parser'.current_pos.hi < 2^15
               /\ Val(parser'.current_pos)
                     = Val(header_pos') + 8 + Val(chunk'.size)
                       + (Val(chunk'.size) % 2)
        /\ ReturnStep => LessEq32(call_pos, parser'.current_pos)
        /\ (parser.file /\ parser'.file
             /\ Greater32(parser.current_pos, parser'.current_pos))
            => /\ rewinds' = rewinds + 1
               /\ parser'.current_pos = parser.movi_start
      ]_vars

\* avi_parser.c:267-272, 292-295, 311-314: what ends the scan at the header
\* at pos: fewer than 8 bytes are left before movi_end, the header cannot
\* be read, or the payload of a video or audio chunk cannot be read
EndAt(pos) ==
    \/ Greater32(Add32(pos, U32(8)), parser.movi_end)
    \/ ~read_bytes(container, pos, U32(8))
    \/ LET h == HeaderAt(container, pos) IN
       /\ ~TooLarge(h.size, parser.frame_buffer_size)
       /\ IsVideoId(h.id) \/ IsAudioId(h.id)
       /\ ~read_bytes(container, Add32(pos, U32(8)), h.size)

\* main.c:256-257: a step in which avi_parser_next_chunk is called by
\* buffer_one_chunk and returns
DemuxReturns == AtBocRead /\ ~RingFull(video_buffered) /\ pc' # "scanning"

\* C24: avi_parser_next_chunk returns ESP_ERR_NOT_FOUND with the type
\* AVI_CHUNK_END exactly when, at the last header of the scan, the cursor has
\* reached the end of the movi region or the header or the payload cannot be
\* read, and it returns ESP_OK only with a Video or an Audio chunk; the driver
\* sets end_of_file on an End, calls the demuxer no more while end_of_file is
\* set, and the session drains, ends and is stopped.
C24_EndOfStream ==
    /\ [][ DemuxReturns =>
             /\ ret' \in {"ESP_OK", "ESP_ERR_NOT_FOUND"}
             /\ (ret' = "ESP_OK") =>
                  chunk'.type \in {"AVI_CHUNK_VIDEO", "AVI_CHUNK_AUDIO"}
             /\ (ret' = "ESP_ERR_NOT_FOUND") =>
                  chunk'.type = "AVI_CHUNK_END" /\ end_of_file'
             /\ (ret' = "ESP_ERR_NOT_FOUND") <=> EndAt(header_pos') ]_vars
    /\ [](end_of_file => ~AtBocRead /\ pc # "scanning")
    /\ (end_of_file ~> (pc = "menu" /\ ~end_of_file /\ ~parser.file))

\* the scan has ended on a payload that could not be read while frames are
\* still buffered
C24_Witness ==
    /\ end_of_file
    /\ pc = "pace"
    /\ video_buffered > 0
    /\ ret = "ESP_ERR_NOT_FOUND"
    /\ chunk.type = "AVI_CHUNK_END"
    /\ ~Greater32(Add32(header_pos, U32(8)), parser.movi_end)
    /\ read_bytes(container, header_pos, U32(8))

----------------------------------------------------------------------------
(* A file that cannot be opened *)

\* the first twelve bytes of the file are not "RIFF", a size and "AVI "
BadSignature ==
    container.riff # FOURCC_RIFF \/ container.avi # FOURCC_AVI

\* no top-level LIST chunk of the file has the type "movi"
NoMoviList ==
    \A o \in DOMAIN container.at :
        o < 100 => ~(/\ container.at[o].id = FOURCC_LIST
                     /\ container.at[o].list = FOURCC_MOVI)

\* C25: start_playback on a file without the RIFF/AVI signature or without a
\* movi list returns an error; whenever it returns an error from the open the
\* application is still in the menu and the parser has neither an open file
\* nor a frame buffer; avi_parser_next_chunk on such a parser returns
\* ESP_ERR_INVALID_ARG and touches nothing.
C25_FailedOpen ==
    [][ /\ start_playback_card =>
             /\ (BadSignature \/ NoMoviList) => ret' # "ESP_OK"
             /\ (ret' # "ESP_OK") =>
                  /\ pc' = "menu"
                  /\ ~parser'.file
                  /\ ~parser'.frame_buffer
        /\ (NextChunkInMenu /\ ~parser.file) =>
             /\ ret' = "ESP_ERR_INVALID_ARG"
             /\ parser' = parser
             /\ chunk' = chunk
             /\ pc' = "menu" ]_vars

\* a file with the signature but without a movi list was refused by the
\* parser, and avi_parser_next_chunk was then called on it
C25_Witness ==
    /\ pc = "menu"
    /\ ~started
    /\ ~BadSignature
    /\ NoMoviList
    /\ ~parser.file
    /\ ~parser.frame_buffer
    /\ parser.frame_buffer_size = U32(MAX_FRAME_SIZE)
    /\ ret = "ESP_ERR_INVALID_ARG"

----------------------------------------------------------------------------
(* From one session to the next *)

\* stop_playback has returned: the application is back in the menu after a
\* session
AfterStop == pc = "menu" /\ started

\* main.c:216-227: what stop_playback resets, closes and keeps
ResetByStop ==
    /\ video_write_idx = 0
    /\ video_read_idx = 0
    /\ video_buffered = 0
    /\ next_frame_index = 0
    /\ current_frame = 0
    /\ ~end_of_file
    /\ ~video_ended
    /\ ~parser.file
    /\ ~parser.frame_buffer
    /\ video_buffer_memory

\* every frame that can still be decoded was stored in the running session,
\* and a chunk in the stash was read in the running session
NothingFromEarlierSession ==
    /\ \A i \in LiveSlots : video_frames[i].session = sessions
    /\ HasPending(pending_audio_size) => pending_audio_data \in 1 .. audio_seq
    /\ \A i \in DOMAIN accepted : accepted[i] \in 1 .. audio_seq

\* C30: after stop_playback the ring indices, the counters and the flags are
\* reset, the parser is closed and the ring memory is still allocated; the
\* stash is emptied by the next start_playback before a chunk is read, and
\* in a session every buffered frame and every stashed or accepted audio
\* chunk was read in that session.
C30_ResetBetweenSessions ==
    /\ AfterStop => ResetByStop
    /\ (pc = "prebuffer" /\ audio_seq = 0) => ~HasPending(pending_audio_size)
    /\ (pc # "menu") => NothingFromEarlierSession

\* C30 as stated: the stash too is empty once stop_playback has returned
C30_AllResetAtStop ==
    /\ AfterStop => ResetByStop /\ ~HasPending(pending_audio_size)
    /\ (pc # "menu") => NothingFromEarlierSession

\* stop_playback has returned from a session that was stopped with an audio
\* chunk in the stash: everything is reset but the stash, and the slots of
\* the ring still hold the frames of the session
C30_Witness ==
    /\ AfterStop
    /\ ResetByStop
    /\ HasPending(pending_audio_size)
    /\ sessions < MaxSessions

----------------------------------------------------------------------------
(* audio_player.c: the driver calls audio_player_start, audio_player_stop   *)
(* and audio_player_get_position_ms; every audio task runs audio_task on    *)
(* the other core.  A step is one access to the shared state.               *)

pipelineVars == <<driverVars, demuxVars, media, menuVars>>

Created == Cardinality({t \in AudioTasks : tasks[t].pc # "none"})

\* the task is alive and has not left its decode loop
InLoop(t) == tasks[t].pc \in {"entry", "loop", "write", "store",
                              "store_hi", "store_lo"}

\* the task exists for the scheduler
Alive(t) == tasks[t].pc \notin {"none", "dead", "deleted"}

\* what i2s_channel_write, which waits with portMAX_DELAY, reports in
\* bytes_written for a full buffer (audio_player.c:310-311); nothing is
\* written without a channel
SinkWrites == IF i2s_tx_handle THEN {PCM_BUFFER_SIZE} ELSE {0}

\* audio_player.c:315: the frames of a sink write
FramesOf(bytes_written) == U32(bytes_written \div 4)

\* the frames of 2^22 - 1 full sink writes, 2^32 - 1024
LongPlaybackFrames == [hi |-> 2^16 - 1, lo |-> 2^16 - 1024]

\* audio_player.c:141-148: the test of audio_player_stop and, when there is
\* something to stop, the request
StopBegin(nested) ==
    /\ in_start' = nested
    /\ flushed' = FALSE
    /\ position' = NoPosition
    /\ IF audio_playing \/ audio_task_handle # 0
       THEN /\ audio_stop_requested' = TRUE
            /\ timeout_ms' = STOP_TIMEOUT_MS
            /\ apc' = "stop_wait"
       ELSE /\ apc' = "stop_flush"
            /\ UNCHANGED <<audio_stop_requested, timeout_ms>>
    /\ UNCHANGED <<i2s_tx_handle, audio_task_handle, audio_playing,
                   samples_written, amplifier, handle_seen, tasks, held,
                   stop_returned, writes>>

\* audio_player.c:92-101: the call of audio_player_start; media_ok says
\* whether the argument passes the check of line 93
StartCall ==
    \E media_ok \in BOOLEAN :
          IF ~media_ok
          THEN UNCHANGED audioVars
          ELSE IF audio_playing
          THEN StopBegin(TRUE)
          ELSE /\ apc' = "start_reset"
               /\ position' = NoPosition
               /\ UNCHANGED <<i2s_tx_handle, audio_task_handle, audio_playing,
                              audio_stop_requested, samples_written, amplifier,
                              in_start, timeout_ms, handle_seen, tasks, held,
                              stop_returned, flushed, writes>>

\* audio_player_start called while the pipeline rests
audio_player_start ==
    /\ apc = "idle"
    /\ Created < MaxAudioTasks
    /\ StartCall
    /\ UNCHANGED pipelineVars

\* audio_player.c:102-110
StartReset ==
    /\ apc = "start_reset"
    /\ samples_written' = Zero64
    /\ audio_stop_requested' = FALSE
    /\ audio_playing' = TRUE
    /\ amplifier' = TRUE
    /\ held' = {Zero64}
    /\ stop_returned' = FALSE
    /\ apc' = "start_create"
    /\ UNCHANGED <<i2s_tx_handle, audio_task_handle, in_start, timeout_ms,
                   handle_seen, tasks, position, flushed, writes>>
    /\ UNCHANGED pipelineVars

\* audio_player.c:113-130: xTaskCreatePinnedToCore stores the handle before
\* the new task can run
StartCreate ==
    /\ apc = "start_create"
    /\ \E result \in {"pdPASS", "pdFAIL"} :
          IF result = "pdPASS"
          THEN /\ tasks' = [tasks EXCEPT ![Created + 1].pc = "entry"]
               /\ audio_task_handle' = Created + 1
               /\ UNCHANGED audio_playing
          ELSE /\ audio_playing' = FALSE
               /\ UNCHANGED <<tasks, audio_task_handle>>
    /\ apc' = "idle"
    /\ UNCHANGED <<i2s_tx_handle, audio_stop_requested, samples_written,
                   amplifier, in_start, timeout_ms, handle_seen, position,
                   held, stop_returned, flushed, writes>>
    /\ UNCHANGED pipelineVars

\* audio_player.c:139-148: the call of audio_player_stop
audio_player_stop ==
    /\ apc = "idle"
    /\ StopBegin(FALSE)
    /\ UNCHANGED pipelineVars

\* audio_player.c:149-152: one test of the wait loop, and one delay
StopWait ==
    /\ apc = "stop_wait"
    /\ IF audio_playing /\ timeout_ms > 0
       THEN /\ timeout_ms' = timeout_ms - STOP_POLL_MS
            /\ apc' = apc
       ELSE /\ apc' = "stop_check"
            /\ UNCHANGED timeout_ms
    /\ UNCHANGED <<i2s_tx_handle, audio_task_handle, audio_playing,
                   audio_stop_requested, samples_written, amplifier, in_start,
                   handle_seen, tasks, position, held, stop_returned, flushed,
                   writes>>
    /\ UNCHANGED pipelineVars

\* audio_player.c:155
StopCheck ==
    /\ apc = "stop_check"
    /\ IF audio_task_handle # 0 /\ audio_playing
       THEN /\ handle_seen' = audio_task_handle
            /\ apc' = "stop_delete"
       ELSE /\ apc' = "stop_clear"
            /\ UNCHANGED handle_seen
    /\ UNCHANGED <<i2s_tx_handle, audio_task_handle, audio_playing,
                   audio_stop_requested, samples_written, amplifier, in_start,
                   timeout_ms, tasks, position, held, stop_returned, flushed,
                   writes>>
    /\ UNCHANGED pipelineVars

\* audio_player.c:156-157: vTaskDelete(audio_task_handle).  The handle is a
\* plain static: the build may pass the value line 155 read, or read it again
\* after the log call.  A NULL handle deletes the calling task; the handle of
\* a task that has deleted itself is a dangling one.
StopDelete ==
    /\ apc = "stop_delete"
    /\ \E h \in {handle_seen, audio_task_handle} :
          IF h = 0
          THEN /\ apc' = "deleted"
               /\ UNCHANGED tasks
          ELSE IF tasks[h].pc = "dead"
          THEN /\ apc' \in {"stop_clear", "crashed"}
               /\ UNCHANGED tasks
          ELSE /\ tasks' = [tasks EXCEPT ![h] = [NoTask EXCEPT !.pc = "deleted"]]
               /\ apc' = "stop_clear"
    /\ UNCHANGED <<i2s_tx_handle, audio_task_handle, audio_playing,
                   audio_stop_requested, samples_written, amplifier, in_start,
                   timeout_ms, handle_seen, position, held, stop_returned,
                   flushed, writes>>
    /\ UNCHANGED pipelineVars

\* audio_player.c:160-162
StopClear ==
    /\ apc = "stop_clear"
    /\ audio_task_handle' = 0
    /\ audio_playing' = FALSE
    /\ apc' = "stop_flush"
    /\ UNCHANGED <<i2s_tx_handle, audio_stop_requested, samples_written,
                   amplifier, in_start, timeout_ms, handle_seen, tasks,
                   position, held, stop_returned, flushed, writes>>
    /\ UNCHANGED pipelineVars

\* audio_player.c:165-179: silence is written if there is a channel, the
\* amplifier is turned off, the function returns and its locals are gone
StopFlush ==
    /\ apc = "stop_flush"
    /\ flushed' = i2s_tx_handle
    /\ amplifier' = FALSE
    /\ stop_returned' = TRUE
    /\ in_start' = FALSE
    /\ apc' = IF in_start THEN "start_reset" ELSE "idle"
    /\ timeout_ms' = 0
    /\ handle_seen' = 0
    /\ UNCHANGED <<i2s_tx_handle, audio_task_handle, audio_playing,
                   audio_stop_requested, samples_written, tasks, position,
                   held, writes>>
    /\ UNCHANGED pipelineVars

\* audio_player.c:185-188 on a 32-bit core: the load of the first word of
\* samples_written, whichever the build loads first
audio_player_get_position_ms ==
    /\ apc = "idle"
    /\ \E first \in {"lo", "hi"} :
          position' =
             [phase |-> first,
              value |-> IF first = "lo"
                        THEN [Zero64 EXCEPT !.lo = samples_written.lo]
                        ELSE [Zero64 EXCEPT !.hi = samples_written.hi]]
    /\ apc' = "read"
    /\ UNCHANGED <<i2s_tx_handle, audio_task_handle, audio_playing,
                   audio_stop_requested, samples_written, amplifier, in_start,
                   timeout_ms, handle_seen, tasks, held, stop_returned,
                   flushed, writes>>
    /\ UNCHANGED pipelineVars

\* the value the two loads give when the second is made now
PositionRead ==
    IF position.phase = "lo"
    THEN [position.value EXCEPT !.hi = samples_written.hi]
    ELSE [position.value EXCEPT !.lo = samples_written.lo]

\* the load of the other word; PositionRead is returned to the caller, which
\* logs it (main.c:394-401)
PositionSecondLoad ==
    /\ apc = "read"
    /\ position' = NoPosition
    /\ apc' = "idle"
    /\ UNCHANGED <<i2s_tx_handle, audio_task_handle, audio_playing,
                   audio_stop_requested, samples_written, amplifier, in_start,
                   timeout_ms, handle_seen, tasks, held, stop_returned,
                   flushed, writes>>
    /\ UNCHANGED pipelineVars

taskOnly == <<i2s_tx_handle, audio_task_handle, audio_playing,
              audio_stop_requested, samples_written, amplifier, apc, in_start,
              timeout_ms, handle_seen, position, held, stop_returned, flushed,
              writes>>

\* audio_player.c:213-231: the decoder is opened and the frame buffer
\* allocated, or the task goes to cleanup
TaskEntry(t) ==
    /\ tasks[t].pc = "entry"
    /\ \E ok \in BOOLEAN :
          tasks' = [tasks EXCEPT ![t].pc = IF ok THEN "loop"
                                           ELSE "exit_playing"]
    /\ UNCHANGED taskOnly
    /\ UNCHANGED pipelineVars

\* audio_player.c:241-275, 338-342: the test of the loop, the next frame
\* and its decoding
TaskLoop(t) ==
    /\ tasks[t].pc = "loop"
    /\ IF audio_stop_requested
       THEN tasks' = [tasks EXCEPT ![t].pc = "exit_playing"]
       ELSE \E frame \in {"end of stream", "decode error", "pcm"} :
               /\ frame = "pcm" => writes < MaxAudioWrites
               /\ tasks' = [tasks EXCEPT ![t].pc =
                               CASE frame = "end of stream" -> "exit_playing"
                                 [] frame = "decode error" -> "loop"
                                 [] OTHER -> "write"]
    /\ UNCHANGED taskOnly
    /\ UNCHANGED pipelineVars

\* audio_player.c:310-315: i2s_channel_write returns, samples_written is
\* loaded and the frames are added
TaskWrite(t) ==
    /\ tasks[t].pc = "write"
    /\ \E bytes_written \in SinkWrites :
          tasks' = [tasks EXCEPT ![t] =
                      [pc |-> "store", base |-> samples_written,
                       sum |-> Add64(samples_written, FramesOf(bytes_written))]]
    /\ writes' = writes + 1
    /\ UNCHANGED <<i2s_tx_handle, audio_task_handle, audio_playing,
                   audio_stop_requested, samples_written, amplifier, apc,
                   in_start, timeout_ms, handle_seen, position, held,
                   stop_returned, flushed>>
    /\ UNCHANGED pipelineVars

\* audio_player.c:315 on a 32-bit core: the store of the first word of the
\* sum, whichever the build stores first
TaskStoreFirst(t) ==
    /\ tasks[t].pc = "store"
    /\ \E first \in {"lo", "hi"} :
          /\ samples_written' =
                IF first = "lo"
                THEN [samples_written EXCEPT !.lo = tasks[t].sum.lo]
                ELSE [samples_written EXCEPT !.hi = tasks[t].sum.hi]
          /\ tasks' = [tasks EXCEPT ![t].pc = IF first = "lo" THEN "store_hi"
                                              ELSE "store_lo"]
    /\ held' = held \cup {tasks[t].sum}
    /\ UNCHANGED <<i2s_tx_handle, audio_task_handle, audio_playing,
                   audio_stop_requested, amplifier, apc, in_start, timeout_ms,
                   handle_seen, position, stop_returned, flushed, writes>>
    /\ UNCHANGED pipelineVars

\* the store of the other word
TaskStoreSecond(t) ==
    /\ tasks[t].pc \in {"store_hi", "store_lo"}
    /\ samples_written' =
          IF tasks[t].pc = "store_hi"
          THEN [samples_written EXCEPT !.hi = tasks[t].sum.hi]
          ELSE [samples_written EXCEPT !.lo = tasks[t].sum.lo]
    /\ tasks' = [tasks EXCEPT ![t] = [NoTask EXCEPT !.pc = "loop"]]
    /\ UNCHANGED <<i2s_tx_handle, audio_task_handle, audio_playing,
                   audio_stop_requested, amplifier, apc, in_start, timeout_ms,
                   handle_seen, position, held, stop_returned, flushed,
                   writes>>
    /\ UNCHANGED pipelineVars

\* 2^22 - 1 iterations of the loop, each with a full sink write, while the
\* driver leaves the player alone: a day of playback in one step
LongPlayback(t) ==
    /\ tasks[t].pc = "loop"
    /\ ~audio_stop_requested
    /\ apc = "idle"
    /\ i2s_tx_handle
    /\ samples_written = Zero64
    /\ \A u \in AudioTasks : u # t => ~Alive(u)
    /\ samples_written' = [hi |-> 0, lo |-> LongPlaybackFrames]
    /\ held' = held \cup {[hi |-> 0, lo |-> LongPlaybackFrames]}
    /\ UNCHANGED <<i2s_tx_handle, audio_task_handle, audio_playing,
                   audio_stop_requested, amplifier, apc, in_start, timeout_ms,
                   handle_seen, tasks, position, stop_returned, flushed,
                   writes>>
    /\ UNCHANGED pipelineVars

\* audio_player.c:354
TaskExitPlaying(t) ==
    /\ tasks[t].pc = "exit_playing"
    /\ audio_playing' = FALSE
    /\ tasks' = [tasks EXCEPT ![t].pc = "exit_handle"]
    /\ UNCHANGED <<i2s_tx_handle, audio_task_handle, audio_stop_requested,
                   samples_written, amplifier, apc, in_start, timeout_ms,
                   handle_seen, position, held, stop_returned, flushed,
                   writes>>
    /\ UNCHANGED pipelineVars

\* audio_player.c:355
TaskExitHandle(t) ==
    /\ tasks[t].pc = "exit_handle"
    /\ audio_task_handle' = 0
    /\ tasks' = [tasks EXCEPT ![t].pc = "exit_delete"]
    /\ UNCHANGED <<i2s_tx_handle, audio_playing, audio_stop_requested,
                   samples_written, amplifier, apc, in_start, timeout_ms,
                   handle_seen, position, held, stop_returned, flushed,
                   writes>>
    /\ UNCHANGED pipelineVars

\* audio_player.c:356: vTaskDelete(NULL)
TaskExitDelete(t) ==
    /\ tasks[t].pc = "exit_delete"
    /\ tasks' = [tasks EXCEPT ![t].pc = "dead"]
    /\ UNCHANGED taskOnly
    /\ UNCHANGED pipelineVars

\* audio_task, audio_player.c:213-357
audio_task ==
    \E t \in AudioTasks :
        \/ TaskEntry(t)
        \/ TaskLoop(t)
        \/ TaskWrite(t)
        \/ TaskStoreFirst(t)
        \/ TaskStoreSecond(t)
        \/ LongPlayback(t)
        \/ TaskExitPlaying(t)
        \/ TaskExitHandle(t)
        \/ TaskExitDelete(t)

\* audio_player_init has run, with or without a channel; the pipeline is in
\* the menu
AudioSpecInit ==
    /\ DriverInit
    /\ ui_menu_init(Playlist(1))
    /\ container = EmptyContainer
    /\ ParserInit
    /\ i2s_tx_handle \in BOOLEAN
    /\ AudioInit
    /\ media = NoMedia

NextAudio ==
    \/ audio_player_start
    \/ StartReset
    \/ StartCreate
    \/ audio_player_stop
    \/ StopWait
    \/ StopCheck
    \/ StopDelete
    \/ StopClear
    \/ StopFlush
    \/ audio_player_get_position_ms
    \/ PositionSecondLoad
    \/ audio_task

\* the driver and the audio tasks in every interleaving; no task is ever
\* obliged to run
AudioSpec == AudioSpecInit /\ [][NextAudio]_vars

----------------------------------------------------------------------------
(* The audio player *)

\* audio_player_stop returns: the step after line 176
StopReturns == apc = "stop_flush" /\ apc' # "stop_flush"

\* C26: audio_player_stop always returns: the driver is never deleted or
\* brought down inside it, its wait loop makes at most 50 polls of 10 ms, a
\* task that is still playing after the wait is deleted, and when it returns
\* audio_playing is false, audio_task_handle is NULL, silence was written to
\* the channel and the amplifier is off.
C26_StopAlwaysReturns ==
    /\ [](apc \notin {"deleted", "crashed"})
    /\ [](apc = "stop_wait" =>
             timeout_ms \in {STOP_TIMEOUT_MS - k * STOP_POLL_MS :
                                k \in 0 .. (STOP_TIMEOUT_MS \div STOP_POLL_MS)})
    /\ [][ StopReturns =>
             /\ ~audio_playing'
             /\ audio_task_handle' = 0
             /\ flushed' = i2s_tx_handle
             /\ ~amplifier' ]_vars

\* C27: once audio_player_stop has returned, and until the next
\* audio_player_start resets the player, no audio task is in its decode
\* loop and samples_written does not change.
C27_NoSamplesAfterStop ==
    /\ [](stop_returned /\ apc \in {"idle", "read"} =>
             \A t \in AudioTasks : ~InLoop(t))
    /\ [][ stop_returned /\ stop_returned' =>
             samples_written' = samples_written ]_vars

\* a step of the driver other than the reset of audio_player_start
DriverStep == apc' # apc \/ (apc = "stop_wait" /\ timeout_ms' # timeout_ms)

\* C28: samples_written is changed by the audio tasks only, apart from the
\* reset of audio_player_start; it never decreases between two resets; and
\* a task that adds the frames of a write stores the sum over the value the
\* counter has at the store.
C28_CounterGrowsByWrites ==
    [][ /\ (samples_written' # samples_written) =>
             \/ apc = "start_reset"
             \/ ~DriverStep /\ Less64(samples_written, samples_written')
        /\ \A t \in AudioTasks :
             (tasks[t].pc = "store" /\ tasks'[t].pc \in {"store_hi", "store_lo"})
                 => samples_written = tasks[t].base ]_vars

\* C29: the value audio_player_get_position_ms computes the position from
\* is a value samples_written was assigned since the last reset.
C29_ReadNotTorn ==
    [][ (apc = "read" /\ apc' = "idle") => PositionRead \in held ]_vars

----------------------------------------------------------------------------
(* Decode errors *)

\* a call of process_video_frame in which the decoder rejected the frame
DecodeFailed ==
    /\ pc = "pace"
    /\ pace_log'.called
    /\ pace_log'.decoded # <<>>
    /\ ~pace_log'.decode_ok

\* C31: a call in which the decoder rejects the frame consumes that frame
\* and nothing else beyond the late frames dropped before it: the read
\* index and video_buffered move by one for the rejected frame,
\* current_frame is not set from it, the call returns "not ended", the
\* parser stays open and the session stays in playback.
C31_DecodeErrorSkipsFrame ==
    [][ DecodeFailed =>
          LET n == Len(pace_log'.dropped) IN
          /\ video_buffered' = video_buffered - n - 1
          /\ video_read_idx' = (video_read_idx + n + 1) % VIDEO_BUFFER_FRAMES
          /\ current_frame' = (IF n = 0 THEN current_frame
                                        ELSE Last(pace_log'.dropped) + 1)
          /\ ~video_ended'
          /\ pc' = "playing"
          /\ parser' = parser
          /\ end_of_file' = end_of_file ]_vars

\* a session reached the end of its video with no frame ever decoded or
\* dropped: every frame of the file was rejected by the decoder
C31_Witness ==
    /\ pc = "ended"
    /\ current_frame = 0
    /\ next_frame_index >= 3
    /\ last_consumed = next_frame_index - 1
    /\ video_buffered = 0

----------------------------------------------------------------------------
(* Progress *)

\* a returned word that is an int in 0 .. 100
IsPercent(v) == v.hi = 0 /\ v.lo <= 100

\* C32: between two calls of the parser, whatever was opened, scanned,
\* rewound or closed before, avi_parser_get_progress returns a value in
\* 0 .. 100.
C32_ProgressInRange ==
    [](~in_call => IsPercent(avi_parser_get_progress(parser)))

----------------------------------------------------------------------------
(* Termination of the scan *)

\* a pass of the scan loop after which the loop goes on
LoopGoesOn == in_call /\ in_call'

\* C33: every pass of the scan loop of avi_parser_next_chunk either
\* returns or leaves the cursor strictly above where it found it, so that
\* the cursor passes movi_end after finitely many passes and the call
\* terminates.
C33_ScanLoopAdvances ==
    [][ LoopGoesOn =>
          Greater32(parser'.current_pos, parser.current_pos) ]_vars

----------------------------------------------------------------------------
(* The decode loop of the audio task over a preloaded stream:               *)
(* stream_next_audio_frame, media_loader.c:276-314, and the loop of         *)
(* audio_task, audio_player.c:241-342.  TaskLoop leaves the frames of the   *)
(* stream open; StreamLoop takes them from the bytes of the stream.         *)

\* the pieces a stream of the model is made of: an ADTS frame of 7 bytes,
\* one of 9 bytes, a byte that is no sync word, a header that declares 3
\* bytes, a header that declares 16 bytes, and a single 0xFF
StreamUnits == {"f7", "f9", "junk", "tiny", "long", "ff"}

UnitBytes(u) ==
    CASE u = "f7" -> <<255, 241, 0, 0, 0, 224, 0>>
      [] u = "f9" -> <<255, 241, 0, 0, 1, 32, 0, 0, 0>>
      [] u = "junk" -> <<0>>
      [] u = "tiny" -> <<255, 241, 0, 0, 0, 96, 0>>
      [] u = "long" -> <<255, 241, 0, 0, 2, 0, 0>>
      [] OTHER -> <<255>>

RECURSIVE StreamBytes(_)
StreamBytes(units) ==
    IF units = <<>> THEN <<>>
    ELSE UnitBytes(Head(units)) \o StreamBytes(Tail(units))

\* the preloaded audio streams of the model, not yet read
Streams ==
    {[audio_data |-> StreamBytes(units), audio_pos |-> 0] :
        units \in SeqsUpTo(StreamUnits, MaxUnits)}

\* what a read behind the end of audio_data may find
BytesBehindEnd == {0, 241, 255}

\* audio_data[i]; fill is the byte found behind the end of the data
ByteAt(m, i, fill) ==
    IF i < Len(m.audio_data) THEN m.audio_data[i + 1] ELSE fill

\* media_loader.c:284, 288, 295: the ADTS sync word at offset i
SyncAt(m, i, fill) ==
    ByteAt(m, i, fill) = 255 /\ ByteAt(m, i + 1, fill) \div 16 = 15

\* media_loader.c:301-303: the 13-bit frame length of the header at i
FrameLenAt(m, i, fill) ==
    (ByteAt(m, i + 3, fill) % 4) * 2^11
        + ByteAt(m, i + 4, fill) * 8
        + ByteAt(m, i + 5, fill) \div 32

\* a header may declare any length that fits the data
FrameLenOk_AnyLength(frame_len, pos, size) == pos + frame_len <= size

\* media_loader.c:305
FrameLenOk(frame_len, pos, size) == frame_len >= 7 /\ pos + frame_len <= size

\* media_loader.c:276-314: whether NULL is returned, the offset of the
\* frame returned otherwise, its size, and the media after the call
stream_next_audio_frame(m, fill) ==
    LET size == Len(m.audio_data)
        null(pos) == [null |-> TRUE, frame |-> 0, frame_size |-> 0,
                      media |-> [m EXCEPT !.audio_pos = pos]]
    IN  IF m.audio_pos >= size THEN null(m.audio_pos)
        ELSE LET found == {i \in m.audio_pos + 1 .. size - 2 :
                              SyncAt(m, i, fill)}
                 pos == IF SyncAt(m, m.audio_pos, fill) \/ found = {}
                        THEN m.audio_pos
                        ELSE CHOOSE i \in found : \A j \in found : i <= j
             IN  IF ~SyncAt(m, pos, fill) THEN null(pos)
                 ELSE LET frame_len == FrameLenAt(m, pos, fill) IN
                      IF ~FrameLenOk(frame_len, pos, size) THEN null(pos)
                      ELSE [null |-> FALSE, frame |-> pos,
                            frame_size |-> frame_len,
                            media |-> [m EXCEPT !.audio_pos = pos + frame_len]]

\* what esp_aac_dec_decode reports for a frame (audio_player.c:275-277,
\* 338)
DecodeOutcomes == {"pcm", "no output", "decode error"}

\* audio_player.c:241-275, 338-342: the test of the loop, the next frame of
\* the stream and its decoding
StreamLoop(t) ==
    /\ tasks[t].pc = "loop"
    /\ IF audio_stop_requested
       THEN /\ tasks' = [tasks EXCEPT ![t].pc = "exit_playing"]
            /\ UNCHANGED media
       ELSE \E fill \in BytesBehindEnd :
            \E r \in {stream_next_audio_frame(media, fill)} :
               /\ media' = r.media
               /\ IF r.null \/ r.frame_size = 0
                  THEN tasks' = [tasks EXCEPT ![t].pc = "exit_playing"]
                  ELSE \E decoded \in DecodeOutcomes :
                          tasks' = [tasks EXCEPT ![t].pc =
                                      IF decoded = "pcm" THEN "write"
                                      ELSE "loop"]
    /\ UNCHANGED taskOnly
    /\ UNCHANGED <<driverVars, demuxVars, menuVars>>

\* audio_player_start is called once with the stream and the driver then
\* leaves the player alone
StreamStart ==
    /\ Created = 0
    /\ Len(media.audio_data) > 0
    /\ audio_player_start

stream_task ==
    \E t \in AudioTasks :
        \/ TaskEntry(t)
        \/ StreamLoop(t)
        \/ TaskWrite(t)
        \/ TaskStoreFirst(t)
        \/ TaskStoreSecond(t)
        \/ TaskExitPlaying(t)
        \/ TaskExitHandle(t)
        \/ TaskExitDelete(t)

StreamSpecInit ==
    /\ DriverInit
    /\ ui_menu_init(Playlist(1))
    /\ container = EmptyContainer
    /\ ParserInit
    /\ i2s_tx_handle \in BOOLEAN
    /\ AudioInit
    /\ media \in Streams

NextStream ==
    \/ StreamStart
    \/ StartReset
    \/ StartCreate
    \/ stream_task

\* the scheduler runs the audio task, and every call it makes returns
StreamSpec ==
    /\ StreamSpecInit
    /\ [][NextStream]_vars
    /\ WF_vars(stream_task)

\* a pass of the decode loop after which the task is still in the loop
StaysInLoop(t) ==
    /\ tasks[t].pc = "loop"
    /\ tasks'[t].pc \in {"loop", "write"}

\* C34: a pass of the decode loop that does not leave the loop takes at
\* least 7 bytes from the stream, after a decode error as well; the read
\* position never passes the end of the data; and a task that was created
\* ends with audio_playing cleared by itself.
C34_DecodeLoopEnds ==
    /\ [][ \A t \in AudioTasks :
             StaysInLoop(t) => media'.audio_pos >= media.audio_pos + 7 ]_vars
    /\ [](media.audio_pos <= Len(media.audio_data))
    /\ \A t \in AudioTasks :
          (tasks[t].pc = "entry") ~> (tasks[t].pc = "dead" /\ ~audio_playing)

\* the task has ended after it read a stream with a frame behind junk, a
\* frame, and a header that declares less than a frame
C34_Witness ==
    /\ tasks[1].pc = "dead"
    /\ ~audio_playing
    /\ media.audio_data = StreamBytes(<<"junk", "f9", "tiny">>)
    /\ media.audio_pos = 10
    /\ writes = 1

----------------------------------------------------------------------------
(* The bound of the top-up loop *)

\* the top-up loop calls buffer_one_chunk
TopUpCalls == pc \in {"playing", "topup"} /\ pc' = "topup_read"

\* that call returns
TopUpCallReturns == pc = "topup_read" /\ pc' # "topup_read"

\* C35: in a call of process_video_frame, chunks_read is the number of
\* buffer_one_chunk calls that returned 0, and every earlier call of the
\* loop returned 0; buffer_one_chunk is called only with chunks_read below
\* 8, the ring not full and end_of_file not set, so at most 8 times; and a
\* return other than 0 ends the loop.
C35_TopUpBounded ==
    /\ [](chunks_read \in 0 .. max_chunks)
    /\ [](pc = "playing" => chunks_read = 0)
    /\ [](pc = "topup_read" => chunks_read + 1 <= max_chunks)
    /\ [][ TopUpCalls => /\ video_buffered < VIDEO_BUFFER_FRAMES
                         /\ ~end_of_file
                         /\ chunks_read < max_chunks ]_vars
    /\ [][ TopUpCallReturns =>
             IF boc_result' = 0
             THEN pc' = "topup" /\ chunks_read' = chunks_read + 1
             ELSE pc' = "pace" /\ chunks_read' = chunks_read ]_vars
    /\ [][ (pc = "topup" /\ pc' = "pace") =>
             \/ video_buffered >= VIDEO_BUFFER_FRAMES
             \/ end_of_file
             \/ chunks_read = max_chunks ]_vars

\* the loop stopped after its eighth call, with room in the ring and the
\* file not at its end
C35_Witness ==
    /\ pc = "pace"
    /\ chunks_read = max_chunks
    /\ boc_result = 0
    /\ video_buffered < VIDEO_BUFFER_FRAMES
    /\ ~end_of_file

----------------------------------------------------------------------------
(* The frame rate: parse_avih and parse_strh (avi_parser.c:45-81) fill      *)
(* info.fps from the header list, start_playback (main.c:150-151) derives   *)
(* video_fps and frame_duration_ms from it.                                 *)

\* avi_parser.c:45-49: info.fps after an avih chunk of `size` bytes whose
\* first field is us_per_frame
parse_avih(fps, size, us_per_frame) ==
    IF size < 56 THEN fps
    ELSE IF us_per_frame > 0 THEN 1000000 \div us_per_frame ELSE 30

\* avi_parser.c:60-74: info.fps after a strh chunk of `size` bytes
parse_strh(fps, size, is_vids, scale, rate) ==
    IF size < 48 \/ ~is_vids \/ scale = 0 THEN fps ELSE rate \div scale

\* avi_parser.c:103-129: the header list holds an avih chunk and the strh
\* chunk of one stream
parse_hdrl_buffer(h) ==
    parse_strh(parse_avih(0, h.avih_size, h.us_per_frame),
               h.strh_size, h.is_vids, h.scale, h.rate)

\* the fields a header list may carry: frame times for 0 (absent), 5, 30,
\* 1000, 1001, 2000 and 1000000 frames per second, a short avih chunk, and
\* a stream header without rate, with 25, 1000 and 2000 frames per second
HeaderFields ==
    {[avih_size |-> a, us_per_frame |-> us, strh_size |-> 56,
      is_vids |-> v, scale |-> sr[1], rate |-> sr[2]] :
        a \in {40, 56},
        us \in {0, 1, 500, 999, 1000, 33333, 200000, 2000000},
        v \in BOOLEAN,
        sr \in {<<0, 30>>, <<1, 0>>, <<1, 25>>, <<1, 1000>>, <<1, 2000>>,
                <<1001, 30000>>}}

\* a file with four frames and an audio chunk behind each header list
RateContainers ==
    {MakeContainer(FOURCC_RIFF, FOURCC_AVI, FOURCC_MOVI,
                   <<"db", "wb", "db", "db", "db">>, 0, fps, TRUE) :
        fps \in {parse_hdrl_buffer(h) : h \in HeaderFields}}

RateInit ==
    /\ DriverInit
    /\ ui_menu_init(Playlist(1))
    /\ AudioIdle
    /\ container \in RateContainers
    /\ ParserInit

NextRate ==
    \/ NextCard
    \/ PaceDivideByZero

\* the card-coupled pipeline over these files
RateSpec == RateInit /\ [][NextRate]_vars

\* C36: while a file is played, video_fps and frame_duration_ms are at
\* least 1, whatever frame rate the header list gave, so that the division
\* by frame_duration_ms in process_video_frame is defined.
C36_FrameDurationPositive ==
    [](pc # "menu" => video_fps >= 1 /\ frame_duration_ms >= 1)

----------------------------------------------------------------------------
(* The forced delete *)

\* audio_player_stop executes the vTaskDelete of line 157
ForcedDelete == apc = "stop_delete" /\ apc' # "stop_delete"

\* C37: the vTaskDelete of audio_player_stop is given the handle of a task
\* that is alive, and that task is the one deleted: never NULL, which
\* deletes the driver, and never the handle of a task that has deleted
\* itself.
C37_ForcedDeleteHitsLiveTask ==
    [][ ForcedDelete =>
          \E h \in AudioTasks :
             /\ Alive(h)
             /\ tasks'[h].pc = "deleted"
             /\ \A u \in AudioTasks : u # h => tasks'[u] = tasks[u] ]_vars

----------------------------------------------------------------------------
(* One audio task *)

\* task t executes audio_task_handle = NULL (audio_player.c:355)
ClearsHandle(t) == tasks[t].pc = "exit_handle" /\ tasks'[t].pc = "exit_delete"

\* C38: at most one audio task is in its decode loop; between two calls of
\* the driver audio_task_handle is the handle of the task that is in its
\* loop, and a handle that is set is the handle of a task that is alive;
\* and a task that exits clears no handle but its own.
C38_OneTaskOneHandle ==
    /\ [](Cardinality({t \in AudioTasks : InLoop(t)}) <= 1)
    /\ [](apc = "idle" =>
             /\ \A t \in AudioTasks : InLoop(t) => audio_task_handle = t
             /\ audio_task_handle # 0 => Alive(audio_task_handle))
    /\ [][ \A t \in AudioTasks :
             ClearsHandle(t) => audio_task_handle \in {0, t} ]_vars

----------------------------------------------------------------------------
(* The application: the state machine of app_main (main.c:556-632) over     *)
(* start_playback and stop_playback, with the audio player of               *)
(* audio_player.c under them.  pc = "menu" is APP_STATE_MENU; the driver is *)
(* one task, so it does nothing else while it is inside a call of the       *)
(* audio player.                                                            *)

\* the driver is not inside audio_player_start or audio_player_stop
DriverIdle == apc = "idle"

\* main.c:588-594, 133-210: enter on a menu entry; start_playback with its
\* call of audio_player_start (main.c:187-193) when the file opened and has
\* an audio stream
AppStart ==
    /\ DriverIdle
    /\ Created < MaxAudioTasks
    /\ StartPlaybackOnCard
    /\ IF pc' = "prebuffer" /\ container.info.has_audio
       THEN StartCall
       ELSE UNCHANGED audioVars
    /\ UNCHANGED <<media, menuVars>>

\* main.c:608-613, 618-622 and 213-216: ESC, or the end of the video; the
\* main loop calls stop_playback, which calls audio_player_stop first
AppStop ==
    /\ DriverIdle
    /\ pc \in {"playing", "ended"}
    /\ pc' = "stopping"
    /\ StopBegin(FALSE)
    /\ UNCHANGED <<file, sessionVars, clockVars, ringVars, end_of_file,
                   current_frame, video_ended, stashVars, chunks_read,
                   parser_pos, oversized, audio_queue, end_stream, audio_seq,
                   accepted, last_push, retried, last_chunk, boc_result,
                   pace_log>>
    /\ UNCHANGED <<demuxVars, media, menuVars>>

\* main.c:217-228, 611, 621: audio_player_stop has returned; the rest of
\* stop_playback, and the menu state
AppStopRest ==
    /\ DriverIdle
    /\ pc = "stopping"
    /\ stop_playback

\* an iteration of the main loop during playback, and the pre-buffering
AppPlay ==
    /\ DriverIdle
    /\ \/ PrebufferHead
       \/ PrebufferReadCard
       \/ TopUpHead
       \/ TopUpReadCard
       \/ Pace
       \/ Tick

\* a file with a frame and an audio chunk
AppContainers ==
    {MakeContainer(FOURCC_RIFF, FOURCC_AVI, FOURCC_MOVI, <<"db", "wb">>, 0,
                   10, TRUE)}

AppInit ==
    /\ DriverInit
    /\ ui_menu_init(Playlist(1))
    /\ AudioIdle
    /\ container \in AppContainers
    /\ ParserInit

NextApp ==
    \/ AppStart
    \/ AppPlay
    \/ AppStop
    \/ AppStopRest
    \/ AudioTaskPop
    \/ StartReset
    \/ StartCreate
    \/ StopWait
    \/ StopCheck
    \/ StopDelete
    \/ StopClear
    \/ StopFlush
    \/ audio_task

AppSpec == AppInit /\ [][NextApp]_vars

\* the task is between the decoding of a frame and the end of its write to
\* the sink (audio_player.c:318-345)
Writing(t) == tasks[t].pc \in {"write", "store", "store_hi", "store_lo"}

\* C39: in the menu state the parser is closed, the audio player is not
\* playing and no audio task is writing samples; a start_playback that
\* fails leaves the menu state and the closed parser; and the menu state is
\* entered from playback only by the last step of stop_playback, after
\* audio_player_stop has returned.
C39_MenuMeansStopped ==
    /\ [](pc = "menu" =>
             /\ ~parser.file
             /\ ~audio_playing
             /\ \A t \in AudioTasks : ~Writing(t))
    /\ [][ (pc # "menu" /\ pc' = "menu") =>
             /\ pc = "stopping"
             /\ stop_returned
             /\ ~parser'.file ]_vars

-----------------------------------------------------------------------------
(* The menu: ui_menu_init and ui_menu_handle_input of ui_menu.c, called by  *)
(* the main loop in the menu state with the keys pressed since the last     *)
(* iteration. A selected entry is the index of the video in the playlist;   *)
(* -1 is the NULL the main loop sets selected to before the call.           *)

\* ui_menu.c:173-175
ScrollAfterUp(selected_index, scroll_offset) ==
    IF selected_index < scroll_offset THEN selected_index ELSE scroll_offset

ScrollAfterDown_Kept(selected_index, scroll_offset) == scroll_offset

\* ui_menu.c:182-184
ScrollAfterDown(selected_index, scroll_offset) ==
    IF selected_index >= scroll_offset + MAX_VISIBLE_ITEMS
    THEN selected_index - MAX_VISIBLE_ITEMS + 1
    ELSE scroll_offset

\* ui_menu.c:170-177
MoveUp(state, up) ==
    IF up /\ state.selected_index > 0
    THEN [state EXCEPT
            !.selected_index = state.selected_index - 1,
            !.scroll_offset = ScrollAfterUp(state.selected_index - 1,
                                            state.scroll_offset),
            !.needs_redraw = TRUE]
    ELSE state

\* ui_menu.c:179-186
MoveDown(state, down) ==
    IF down /\ state.selected_index < state.playlist.video_count - 1
    THEN [state EXCEPT
            !.selected_index = state.selected_index + 1,
            !.scroll_offset = ScrollAfterDown(state.selected_index + 1,
                                              state.scroll_offset),
            !.needs_redraw = TRUE]
    ELSE state

\* ui_menu.c:164-194: the state after the call, what it returns and what it
\* stores in *selected_entry
ui_menu_handle_input(state, up, down, enter) ==
    IF state.playlist.video_count = 0
    THEN [state |-> state, ret |-> FALSE, selected_entry |-> -1]
    ELSE LET moved == MoveDown(MoveUp(state, up), down)
         IN  [state |-> moved, ret |-> enter,
              selected_entry |-> IF enter THEN moved.selected_index ELSE -1]

\* main.c:562-599, ui_menu.c:162: an iteration of the main loop in the menu
\* state: the keys are handled, and the menu is drawn when nothing was
\* selected
MenuIteration ==
    /\ pc = "menu"
    /\ \E up \in BOOLEAN, down \in BOOLEAN, enter \in BOOLEAN :
       \E r \in {ui_menu_handle_input(menu_state, up, down, enter)} :
          /\ menu_call' = [up |-> up, down |-> down, enter |-> enter,
                           ret |-> r.ret,
                           selected_entry |-> r.selected_entry]
          /\ menu_state' = IF r.ret /\ r.selected_entry # -1
                           THEN r.state
                           ELSE [r.state EXCEPT !.needs_redraw = FALSE]
    /\ UNCHANGED <<driverVars, demuxVars, taskOnly, tasks, media>>

\* main.c:503-511: the menu is initialised with a loaded playlist, which
\* has at least one video
MenuInit ==
    /\ DriverInit
    /\ AudioIdle
    /\ container = EmptyContainer
    /\ ParserInit
    /\ \E n \in 1 .. MaxVideos : ui_menu_init(Playlist(n))

MenuSpec == MenuInit /\ [][MenuIteration]_vars

\* C40: with at least one video in the playlist the selection is an entry
\* of the playlist, the scroll offset is not negative and not behind the
\* selection, the selection is one of the four entries shown from the
\* scroll offset on, and a call with enter returns the entry at the
\* selected index.
C40_SelectionInWindow ==
    menu_state.playlist.video_count >= 1 =>
        /\ 0 <= menu_state.selected_index
        /\ menu_state.selected_index < menu_state.playlist.video_count
        /\ 0 <= menu_state.scroll_offset
        /\ menu_state.scroll_offset <= menu_state.selected_index
        /\ menu_state.selected_index
              < menu_state.scroll_offset + MAX_VISIBLE_ITEMS
        /\ menu_call.enter =>
              /\ menu_call.ret
              /\ menu_call.selected_entry = menu_state.selected_index

\* the menu was scrolled, and the last call had up, down and enter together
C40_Witness ==
    /\ menu_state.playlist.video_count > MAX_VISIBLE_ITEMS
    /\ menu_state.scroll_offset > 0
    /\ menu_call.up /\ menu_call.down /\ menu_call.enter
    /\ menu_call.selected_entry = menu_state.playlist.video_count - 1

====
